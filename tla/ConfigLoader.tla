---------------------------- MODULE ConfigLoader ----------------------------
(***************************************************************************)
(* The Loader of pkg/config/loader.go: NewLoader, Load and Watch, on a     *)
(* list of files that are written while the loader watches them.           *)
(*                                                                         *)
(* Data abstractions.  What a file says is the number of the write that    *)
(* made it; a file may not parse.  The merged configuration is, for each   *)
(* file, which write of it was merged in; the defaults and the environment *)
(* do not change.  Write events that wait in the watcher are one flag.     *)
(***************************************************************************)
EXTENDS Naturals

CONSTANTS
    NFiles,         \* number of configured files
    MaxWrites       \* bound on the writes of files

VARIABLES
    content,    \* content[f]: the write that made file f, and whether it parses
    writes,     \* number of writes
    loader,     \* the loader of the running process
    view        \* the configuration that process uses


Files == 1..NFiles
Unread == MaxWrites + 1
NoConfig == [f \in Files |-> Unread]

\* pc: "none", "load" (NewLoader), "ready", "watch", "reload", "notify",
\* "failed" (NewLoader returned an error), "done" (Watch returned).
\* k is l.k, old is oldK, next the file loadSources reads next.
NoLoader == [pc |-> "none", k |-> NoConfig, old |-> NoConfig, next |-> 1,
             watched |-> {}, event |-> FALSE]

Init ==
    /\ content = [f \in Files |-> [v |-> 0, ok |-> TRUE]]
    /\ writes = 0 /\ loader = NoLoader /\ view = NoConfig

Become(l) == loader' = l /\ UNCHANGED <<content, writes>>

-----------------------------------------------------------------------------
(* The files.                                                              *)

\* A write in place is reported; a file is emptied and then filled by two
\* of them.
WriteFile(f, ok) ==
    /\ writes < MaxWrites
    /\ writes' = writes + 1
    /\ content' = [content EXCEPT ![f] = [v |-> writes + 1, ok |-> ok]]
    /\ loader' = [loader EXCEPT !.event = @ \/ f \in loader.watched]
    /\ UNCHANGED view

\* A new file renamed over the old one ends the watch, with no Write event.
ReplaceFile(f) ==
    /\ writes < MaxWrites
    /\ writes' = writes + 1
    /\ content' = [content EXCEPT ![f] = [v |-> writes + 1, ok |-> TRUE]]
    /\ loader' = [loader EXCEPT !.watched = @ \ {f}]
    /\ UNCHANGED view

-----------------------------------------------------------------------------
(* NewLoader, Load, and the goroutine of Watch.                            *)

Loading == loader.pc \in {"load", "reload"}

NewLoader == loader' = [NoLoader EXCEPT !.pc = "load"] /\ view' = NoConfig

LoadFile ==
    /\ Loading /\ loader.next \in Files /\ content[loader.next].ok
    /\ Become([loader EXCEPT !.k[loader.next] = content[loader.next].v, !.next = @ + 1])
    /\ UNCHANGED view

\* Mutation: the error of a reload leaves the new, unfinished configuration.
LoadFailsNoRollback ==
    /\ Loading /\ loader.next \in Files /\ ~content[loader.next].ok
    /\ Become(IF loader.pc = "load" THEN [loader EXCEPT !.pc = "failed"]
              ELSE [loader EXCEPT !.pc = "watch", !.old = NoConfig, !.next = 1])
    /\ UNCHANGED view

\* NewLoader returns the error; a reload goes back to the old configuration.
LoadFails ==
    /\ Loading /\ loader.next \in Files /\ ~content[loader.next].ok
    /\ Become(IF loader.pc = "load" THEN [loader EXCEPT !.pc = "failed"]
              ELSE [loader EXCEPT !.pc = "watch", !.k = loader.old, !.old = NoConfig,
                                  !.next = 1])
    /\ UNCHANGED view

LoadSourcesReturns ==
    /\ Loading /\ loader.next \notin Files
    /\ Become([loader EXCEPT !.pc = IF @ = "load" THEN "ready" ELSE "notify",
                             !.old = NoConfig, !.next = 1])
    /\ UNCHANGED view

\* Load copies the merged configuration under the read lock.
Load ==
    /\ loader.pc \in {"ready", "watch", "notify", "done"} /\ view # loader.k
    /\ view' = loader.k
    /\ UNCHANGED <<content, writes, loader>>

\* Watch adds the files, or fails to; it misses what was written before.
Watch ==
    /\ loader.pc = "ready" /\ view # NoConfig
    /\ \/ Become([loader EXCEPT !.pc = "watch", !.watched = Files])
       \/ Become([loader EXCEPT !.pc = "done"])
    /\ UNCHANGED view

Reload ==
    /\ loader.pc = "watch" /\ loader.event
    /\ Become([loader EXCEPT !.pc = "reload", !.event = FALSE, !.old = loader.k,
                             !.k = NoConfig])
    /\ UNCHANGED view

\* The callback of the application loads the configuration.
OnChange ==
    /\ loader.pc = "notify"
    /\ Become([loader EXCEPT !.pc = "watch"])
    /\ view' = loader.k

WatchCancelled ==
    /\ loader.pc = "watch"
    /\ Become([loader EXCEPT !.pc = "done", !.event = FALSE, !.watched = {}])
    /\ UNCHANGED view

-----------------------------------------------------------------------------
Write == \E f \in Files : ReplaceFile(f) \/ \E ok \in BOOLEAN : WriteFile(f, ok)

Step == LoadFile \/ LoadFails \/ LoadSourcesReturns \/ Load \/ Watch \/ Reload \/ OnChange
=============================================================================
