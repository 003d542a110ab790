----------------------------- MODULE PiBinding ------------------------------
(***************************************************************************)
(* Which transcript belongs to which pane, for the pi runner in one        *)
(* working directory (internal/monitor/source_pi.go).  A pane writes its   *)
(* transcript lazily, or resumes an older one; every poll of the monitor   *)
(* pairs the live windows with the files again and stores the session id   *)
(* in the agents row.  Files are numbered by the creation time in their    *)
(* name, so the newest file is the greatest.                               *)
(***************************************************************************)
EXTENDS Naturals, FiniteSets, FiniteSetsExt, SequencesExt

CONSTANTS Panes, MaxFiles, BindTime,
          Slack     \* piBindingSlack, in ticks

ASSUME BindingAssumption == MaxFiles \in Nat \ {0} /\ BindTime \in Nat /\ Slack \in Nat

Files == 1..MaxFiles
NoFile == 0

VARIABLES
    time,
    pane,       \* start: agents.started_at; sid: agents.session_id; own: what it writes
    file,       \* created and mtime; created 0 for a file that does not exist
    seed        \* tracked offset at the binding: none, "start" or "end" of the file

bindVars == <<time, pane, file, seed>>

Dead == [live |-> FALSE, start |-> 0, sid |-> NoFile, own |-> NoFile]

BindInit ==
    /\ time = 1
    /\ pane = [w \in Panes |-> Dead]
    /\ file = [f \in Files |-> [created |-> 0, mtime |-> 0]]
    /\ seed = [w \in Panes |-> "none"]

-----------------------------------------------------------------------------
(* resolvePiBindings.  Its input is the live windows and the inventory.     *)

Windows == {w \in Panes : pane[w].live}
Inventory == {f \in Files : file[f].created > 0}
SameEpoch(f, w) == file[f].created + Slack >= pane[w].start

\* Pass 1: a binding whose file exists stays.
Sticky1 == {w \in Windows : pane[w].sid \in Inventory}

\* Pass 1.5: unless the file was last written before the pane started and
\* there is another one of the pane's own epoch that nobody holds.  Windows
\* come in map order, and a later one sees what an earlier one gave up.
Stale(w, kept) ==
    /\ file[pane[w].sid].mtime < pane[w].start
    /\ \E f \in Inventory \ {pane[w].sid} :
        SameEpoch(f, w) /\ \A o \in kept \ {w} : pane[o].sid # f
Sticky2(order) ==
    FoldLeft(LAMBDA kept, w : IF w \in kept /\ Stale(w, kept) THEN kept \ {w} ELSE kept,
             Sticky1, order)

\* Pass 2: a file held twice is corrupt state; the whole group starts over.
SlipKeepsTwins(kept) == kept
Sticky3(kept) == IF \E v, w \in kept : v # w /\ pane[v].sid = pane[w].sid THEN {} ELSE kept

\* Pass 3: the newest pane first, the newest unclaimed file of its epoch.
Claimable(w, claimed) == {f \in Inventory \ claimed : SameEpoch(f, w)}
Takes(w, claimed) == IF Claimable(w, claimed) = {} THEN NoFile ELSE Max(Claimable(w, claimed))
NewestFirst(order) ==
    \A i, j \in DOMAIN order : i < j => pane[order[i]].start >= pane[order[j]].start
Claims(kept, order) ==
    FoldLeft(LAMBDA b, w : [b EXCEPT ![w] = Takes(w, {b[v] : v \in Windows})],
             [w \in Windows |-> IF w \in kept THEN pane[w].sid ELSE NoFile], order)

\* The fallback: a window left without a file keeps its old one.
Bound(kept, order) ==
    [w \in Windows |-> IF Claims(kept, order)[w] = NoFile /\ pane[w].sid \in Inventory
                       THEN pane[w].sid ELSE Claims(kept, order)[w]]

\* DiscoverSessions stores the ids that changed and seeds their offsets: a
\* file of the pane's epoch is read from its start, an older one from its end.
DiscoverSessions ==
    /\ \E seen \in SetToSeqs(Windows) : LET kept == Sticky3(Sticky2(seen)) IN
       \E order \in {o \in SetToSeqs(Windows \ kept) : NewestFirst(o)} :
        LET b == Bound(kept, order) IN
        /\ pane' = [w \in Panes |-> IF w \in Windows /\ b[w] # NoFile
                                    THEN [pane[w] EXCEPT !.sid = b[w]] ELSE pane[w]]
        /\ seed' = [w \in Panes |->
             IF w \in Windows /\ b[w] # NoFile /\ (b[w] # pane[w].sid \/ seed[w] = "none")
             THEN IF SameEpoch(b[w], w) THEN "start" ELSE "end"
             ELSE IF w \in Windows THEN seed[w] ELSE "none"]
    /\ UNCHANGED <<time, file>>

-----------------------------------------------------------------------------
(* The panes                                                                *)

\* A window opens: with the session of its row resumed, or fresh although
\* the row still has one.
PaneStarts(w) ==
    /\ ~pane[w].live
    /\ \E o \in {NoFile, pane[w].sid} :
        pane' = [pane EXCEPT ![w] = [live |-> TRUE, start |-> time, sid |-> pane[w].sid, own |-> o]]
    /\ UNCHANGED <<time, file, seed>>

PaneWrites(w) ==
    /\ pane[w].live
    /\ IF pane[w].own # NoFile
       THEN file' = [file EXCEPT ![pane[w].own].mtime = time] /\ UNCHANGED pane
       ELSE \E f \in Files :
              /\ file[f].created = 0 /\ \A g \in 1..(f - 1) : file[g].created > 0
              /\ file' = [file EXCEPT ![f] = [created |-> time, mtime |-> time]]
              /\ pane' = [pane EXCEPT ![w].own = f]
    /\ UNCHANGED <<time, seed>>

PaneCloses(w) ==
    /\ pane[w].live
    /\ pane' = [pane EXCEPT ![w].live = FALSE, ![w].own = NoFile]
    /\ UNCHANGED <<time, file, seed>>

BindTick == time < BindTime /\ time' = time + 1 /\ UNCHANGED <<pane, file, seed>>

BindNext ==
    \/ DiscoverSessions \/ BindTick
    \/ \E w \in Panes : PaneStarts(w) \/ PaneWrites(w) \/ PaneCloses(w)

BindSpec == BindInit /\ [][BindNext]_bindVars

-----------------------------------------------------------------------------
Share(v, w) == v # w /\ pane[v].sid = pane[w].sid /\ pane[v].sid # NoFile

\* Rule 2 (source_pi.go), "two live windows sharing a cwd must never hold the
\* same transcript", as far as one pass can give it, however rows and panes
\* were mixed up by closing and resuming: two windows still share a file after
\* it only if every file that could be given to one of the two is taken.
SharedForWantOfFiles ==
    [][DiscoverSessions =>
        \A v, w \in Windows : Share(v, w)' =>
            \E x \in {v, w} : \A f \in Inventory : SameEpoch(f, x) => \E o \in Windows : pane'[o].sid = f
      ]_bindVars
=============================================================================
