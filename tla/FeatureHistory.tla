-------------------------- MODULE FeatureHistory --------------------------
(***************************************************************************)
(* What the feature repository of the planning flow promises its callers,  *)
(* whatever happens to the process and to Git: each feature has one        *)
(* durable value - its document, its journal and its state - that changes  *)
(* in one step, with its journal growing and the state anchored by the     *)
(* last journal entry.  A supersession changes two features in one step.   *)
(* A stop of the process is no step at all.  A rollback that fails halfway *)
(* and cannot be repeated ends the promise for the features it was about.  *)
(***************************************************************************)
EXTENDS Integers

CONSTANTS Features, None

VARIABLES
    durable,    \* [Features -> None or [doc, log, state]]
    torn        \* features of which nothing is promised any more

Anchored(r) == r.log # None /\ r.log.anchor = r.state

\* The transitions of a feature's stage: published again and again until it
\* is approved, never taken back once approved, revised in place after that.
Legal(s, t) ==
    /\ t.flow = s.flow /\ t.from = s.from /\ t.by = s.by
    /\ \/ t = s
       \/ s.st # "committed" /\ t.st = "published" /\ t.app = s.app
       \/ s.st = "published" /\ t = [s EXCEPT !.st = "committed", !.app = s.cur]
       \/ s.st = "committed" /\ t.st = "committed" /\ t.app = t.cur

Init == durable = [f \in Features |-> None] /\ torn = {}

Create(f) ==
    /\ durable[f] = None
    /\ durable'[f] # None
    /\ Anchored(durable'[f]) /\ durable'[f].state.st = "drafting"
    /\ \A g \in Features \ {f} : durable'[g] = durable[g]

\* One operation of Stepan: the journal grows, the state moves by a legal
\* transition; the document may be the one published or edited meanwhile.
Append(f) ==
    /\ durable[f] # None /\ durable'[f] # None
    /\ Anchored(durable[f]) /\ Anchored(durable'[f])
    /\ durable'[f].log.len > durable[f].log.len
    /\ Legal(durable[f].state, durable'[f].state)
    /\ \A g \in Features \ {f} : durable'[g] = durable[g]

\* The user saves the document: Stepan's own files stay as they are.
Edit(f) ==
    /\ durable[f] # None /\ durable'[f] # None
    /\ durable'[f] = [durable[f] EXCEPT !.doc = durable'[f].doc]
    /\ \A g \in Features \ {f} : durable'[g] = durable[g]

\* The old feature is closed and the new one appears in the same step, each
\* naming the other.
Supersede(f, g) ==
    /\ durable[f] # None /\ durable[f].state.st = "committed"
    /\ durable[g] = None
    /\ durable'[f] # None /\ durable'[g] # None
    /\ Anchored(durable[f]) /\ Anchored(durable'[f]) /\ Anchored(durable'[g])
    /\ durable'[f].log.len > durable[f].log.len
    /\ durable'[f].state = [durable[f].state EXCEPT !.flow = "superseded", !.by = g]
    /\ durable'[g].state.from = f /\ durable'[g].state.st = "published"
    /\ \A h \in Features \ {f, g} : durable'[h] = durable[h]

Operation ==
    \/ \E f \in Features : Create(f) \/ Append(f) \/ Edit(f)
    \/ \E f, g \in Features : f # g /\ Supersede(f, g)

\* A step of a rollback failed, and what it rolled back is left as it is.
Tear(fs) ==
    /\ torn' = torn \union fs
    /\ \A g \in Features \ fs : durable'[g] = durable[g]

Next ==
    \/ \E fs \in SUBSET Features : Tear(fs)
    \/ Operation /\ UNCHANGED torn

Spec == Init /\ [][Next]_<<durable, torn>>
=============================================================================
