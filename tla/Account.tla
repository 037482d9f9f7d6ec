-------------------------------- MODULE Account --------------------------------
(***************************************************************************)
(* What the rest of the app sees of the session: the account whose headers *)
(* its requests carry, and whether the tab bar, under which everything     *)
(* else lives, is up.  Session implements this; Rooms is composed with it. *)
(***************************************************************************)
EXTENDS Integers

CONSTANTS
  Accounts,  (* accounts that sign in on this phone                       *)
  None       (* nobody, or headers the server does not take               *)

VARIABLES
  account,   (* the account of the headers                                *)
  tab,       (* the tab bar is up                                         *)
  kills      (* starts of the process after the first                     *)

Init == account = None /\ tab = FALSE /\ kills = 0

\* A sign-in is answered, whoever was signed in before.  The tab bar comes up
\* if there is still a screen to hear of it.
SignIn(a) == account' = a /\ tab' \in {tab, TRUE} /\ UNCHANGED kills

\* A logout, or a refused automatic sign-in
SignOut == account' = None /\ tab' = FALSE /\ UNCHANGED kills

\* The process dies and starts again: with the headers that were stored, or
\* with what a kill in the middle of writing others left of them.
Restart ==
  /\ kills' = kills + 1 /\ tab' = FALSE
  /\ account' \in Accounts \union {None}

Next == (\E a \in Accounts : SignIn(a)) \/ SignOut \/ Restart

Spec == Init /\ [][Next]_<<account, tab, kills>>
=============================================================================
