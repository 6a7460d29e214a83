----------------------------- MODULE Dictionary -----------------------------
(***************************************************************************)
(* What a dictionary file promises: databases of different names are         *)
(* finalized one after the other while it is written; what is read           *)
(* afterwards is all of them in that order or nothing, and opening one by    *)
(* its name opens the first that is listed under it.                         *)
(*                                                                         *)
(* Two failures go unseen, which udx_reader.h does not say: a read that      *)
(* fails inside a name ends the name and spoils the list behind it, and the  *)
(* name of an opened database may be missing.                                *)
(***************************************************************************)
EXTENDS Naturals, Sequences

CONSTANTS
  Cut,      \* what is left of a name when reading it breaks off
  NULL      \* the missing name

VARIABLES
  dbs,      \* the databases [name, id] that were finalized
  writing,  \* whether the writer lives
  shown,    \* what an open reader lists
  whole,    \* how many of these it read before a read failed
  opened    \* the one database that is open, or none

Init == dbs = <<>> /\ writing = TRUE /\ shown = <<>> /\ whole = 0 /\ opened = {}

Finalize ==
  /\ writing
  /\ dbs' # <<>>
  /\ LET db == dbs'[Len(dbs')]
     IN  /\ dbs' = Append(dbs, db)
         /\ \A i \in DOMAIN dbs : dbs[i].name # db.name
  /\ UNCHANGED <<writing, shown, whole, opened>>

\* A close or a crash
WritingEnds ==
  writing /\ writing' = FALSE /\ UNCHANGED <<dbs, shown, whole, opened>>

\* With whole' = Len(dbs) no read failed, and shown' = dbs.
OpenReader ==
  /\ ~writing /\ shown = <<>> /\ dbs # <<>>
  /\ whole' \in 0 .. Len(dbs)
  /\ DOMAIN shown' = DOMAIN dbs
  /\ \A i \in DOMAIN dbs :
       /\ i <= whole' => shown'[i] = dbs[i]
       /\ i = whole' + 1 => shown'[i].name \in Cut[dbs[i].name] /\ shown'[i].id = dbs[i].id
  /\ UNCHANGED <<dbs, writing, opened>>

OpenDb ==
  /\ opened = {}
  /\ \E i \in DOMAIN shown :
       /\ \A j \in 1 .. i - 1 : shown[j].name # shown[i].name
       /\ \E name \in {shown[i].name, NULL} :
            opened' = {[name |-> name, id |-> shown[i].id]}
  /\ UNCHANGED <<dbs, writing, shown, whole>>

CloseDb == opened' = {} /\ UNCHANGED <<dbs, writing, shown, whole>>

CloseReader ==
  /\ opened = {}
  /\ shown' = <<>> /\ whole' = 0
  /\ UNCHANGED <<dbs, writing, opened>>

Next == Finalize \/ WritingEnds \/ OpenReader \/ OpenDb \/ CloseDb \/ CloseReader

Spec == Init /\ [][Next]_<<dbs, writing, shown, whole, opened>>
=============================================================================
