--------------------------- MODULE StandbyDatabase ---------------------------
(***************************************************************************)
(* What the standby promises for each database: a version is offered for   *)
(* promotion only while the standby file holds that version, the file is   *)
(* replaced only while nothing is offered, and production gets only what   *)
(* was offered.  The promise is for trusted databases; how trust is lost   *)
(* is left to the implementation.  It comes back only with an offer that   *)
(* is the file.                                                            *)
(***************************************************************************)
EXTENDS Naturals

CONSTANTS
  DB,       \* databases
  Version   \* versions of the contents of a database, a set of Nat without 0

VARIABLES
  offered,  \* per database: the version offered for promotion, 0 if none
  file,     \* per database: the version in the standby file, 0 without a file
  prod,     \* per database: the version a promotion put in production, 0 before
  trusted   \* databases for which the promise holds

svars == <<offered, file, prod, trusted>>

Nothing == [d \in DB |-> 0]

Init == offered = Nothing /\ file = Nothing /\ prod = Nothing /\ trusted = DB

SameFile(d) == file'[d] = file[d] /\ prod'[d] = prod[d]

Keep(d) == offered'[d] = offered[d] /\ SameFile(d)

(* The standby is withdrawn before its file changes. *)
Withdraw(d) == offered'[d] = 0 /\ SameFile(d)

Replace(d) ==
  /\ offered[d] = 0 /\ offered'[d] = 0
  /\ file'[d] \in Version
  /\ prod'[d] = prod[d]

Offer(d) == file[d] # 0 /\ offered'[d] = file[d] /\ SameFile(d)

(* Production gets the offered file, and the standby has none afterwards. *)
Promote(d) ==
  /\ offered[d] # 0 /\ offered'[d] = 0
  /\ file'[d] = 0
  /\ prod'[d] = offered[d]

(* A step may concern several databases: an import replaces all rows. *)
Next ==
  /\ \A d \in trusted \cap trusted' :
       Keep(d) \/ Withdraw(d) \/ Replace(d) \/ Offer(d) \/ Promote(d)
  /\ \A d \in trusted' \ trusted : Offer(d)

Spec == Init /\ [][Next]_svars
=============================================================================
