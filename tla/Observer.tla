------------------------------ MODULE Observer ------------------------------
(***************************************************************************)
(* The observability component of pkg/observe: Start and Stop swap the     *)
(* target of the logger that everybody holds, and Stop shuts the three     *)
(* OpenTelemetry providers down one after the other.  A base handler is    *)
(* configured and all providers are the observer's own.                    *)
(*                                                                         *)
(* Data abstraction.  A record is the goroutine that logs it; each logs    *)
(* one.                                                                    *)
(***************************************************************************)
EXTENDS Sequences

CONSTANT Loggers

VARIABLES
    started,
    target,     \* what the swap handler points to: "base" or "combined"
    ostop,      \* providers that Stop still has to shut down
    down,       \* providers that are shut down
    oerrs,      \* errs of Stop
    rec,        \* rec[l]: where the record of l is
    queued,     \* records in the log provider's batch
    exported,   \* records the collector took

    \* History.
    begun,      \* whether Start has run
    refused     \* records of batches that were exported and not taken

vars == <<started, target, ostop, down, oerrs, rec, queued, exported, begun, refused>>

Owned == <<"tp", "mp", "lp">>

Init ==
    /\ started = FALSE /\ target = "base"
    /\ ostop = <<>> /\ down = {} /\ oerrs = {}
    /\ rec = [l \in Loggers |-> "none"]
    /\ queued = {} /\ exported = {} /\ begun = FALSE /\ refused = {}

Start ==
    /\ ~started
    /\ started' = TRUE /\ target' = "combined" /\ begun' = TRUE
    /\ UNCHANGED <<ostop, down, oerrs, rec, queued, exported, refused>>

StopBegin ==
    /\ started /\ ostop = <<>> /\ down = {}
    /\ target' = "base"
    /\ ostop' = Owned
    /\ UNCHANGED <<started, down, oerrs, rec, queued, exported, begun, refused>>

\* Mutation: the first error ends Stop.
ShutdownProviderFirstError ==
    /\ ostop # <<>>
    /\ down' = down \cup {Head(ostop)}
    /\ \/ ostop' = Tail(ostop) /\ UNCHANGED oerrs
       \/ ostop' = <<>> /\ oerrs' = oerrs \cup {Head(ostop)}
    /\ started' = (ostop' # <<>>)
    /\ UNCHANGED <<target, rec, queued, exported, begun, refused>>

\* The next provider is shut down, flushing its batch, or fails to within the
\* context; the error is collected and the next one comes.  After the last,
\* started is reset.
ShutdownProvider ==
    /\ ostop # <<>>
    /\ ostop' = Tail(ostop)
    /\ down' = down \cup {Head(ostop)}
    /\ started' = (ostop' # <<>>)
    /\ \/ /\ exported' = IF Head(ostop) = "lp" THEN exported \cup queued ELSE exported
          /\ UNCHANGED oerrs
       \/ oerrs' = oerrs \cup {Head(ostop)} /\ UNCHANGED exported
    /\ queued' = IF Head(ostop) = "lp" THEN {} ELSE queued
    /\ UNCHANGED <<target, rec, begun, refused>>

\* The batch processor exports from time to time.  A batch that the collector
\* does not take is dropped; nobody but the SDK's error handler is told.
ExportBatch ==
    /\ queued # {}
    /\ queued' = {}
    /\ \/ exported' = exported \cup queued /\ UNCHANGED refused
       \/ refused' = refused \cup queued /\ UNCHANGED exported
    /\ UNCHANGED <<started, target, ostop, down, oerrs, rec, begun>>

-----------------------------------------------------------------------------
(* A call of the logger loads the target once and hands the record on.     *)

LoadHandler(l) ==
    /\ rec[l] = "none"
    /\ rec' = [rec EXCEPT ![l] = target]
    /\ UNCHANGED <<started, target, ostop, down, oerrs, queued, exported, begun, refused>>

\* The base handler writes the record, or fails; multiHandler then returns the
\* error without trying the second handler.
HandleBase(l) ==
    /\ rec[l] \in {"base", "combined"}
    /\ \/ rec' = [rec EXCEPT ![l] = IF @ = "base" THEN "written" ELSE "otel"]
       \/ rec' = [rec EXCEPT ![l] = "failed"]
    /\ UNCHANGED <<started, target, ostop, down, oerrs, queued, exported, begun, refused>>

\* The OpenTelemetry bridge emits the record; a provider that is shut down
\* drops it.
HandleOTel(l) ==
    /\ rec[l] = "otel"
    /\ rec' = [rec EXCEPT ![l] = "written"]
    /\ queued' = IF "lp" \in down THEN queued ELSE queued \cup {l}
    /\ UNCHANGED <<started, target, ostop, down, oerrs, exported, begun, refused>>

LogStep(l) == LoadHandler(l) \/ HandleBase(l) \/ HandleOTel(l)

=============================================================================
