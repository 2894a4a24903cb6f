-------------------------- MODULE MCClientSession --------------------------
(* A TLC instance of ClientSession that starts after one request, Earlier, *)
(* has logged in from a page since closed: the cookie is there.            *)
EXTENDS ClientSession

CONSTANTS Earlier, FirstToken, Someone, Secret

SeededInit ==
  /\ tokens = [t \in Token |->
       IF t # FirstToken THEN None
       ELSE [user |-> Someone, revoked |-> FALSE, replacedBy |-> None,
             from |-> None, born |-> 0, checked |-> 0]]
  /\ expired = {}
  /\ delivered = {FirstToken}
  /\ active = User
  /\ password = [u \in User |-> Secret]
  /\ resetLink = [u \in User |-> None]
  /\ mailed = {}
  /\ pc = [r \in Request |-> IF r = Earlier THEN "done" ELSE "idle"]
  /\ call = [r \in Request |->
       IF r = Earlier THEN [op |-> "login", user |-> Someone, password |-> Secret] ELSE NoCall]
  /\ target = [r \in Request |-> IF r = Earlier THEN Someone ELSE None]
  /\ new = [r \in Request |-> IF r = Earlier THEN FirstToken ELSE None]
  /\ link = [r \in Request |-> None]
  /\ reply = [r \in Request |-> IF r = Earlier THEN 200 ELSE 0]
  /\ kills = [u \in User |-> 0]
  /\ checked = [r \in Request |-> 0]
  /\ late = {}
  /\ jar = FirstToken
  /\ view = [p \in Page |-> "new"]
  /\ flight = [p \in Page |-> None]
  /\ owner = [r \in Request |-> None]
  /\ over = {Earlier}
  /\ lost = {}

SeededSpec == SeededInit /\ [][ClientNext]_allVars /\ ClientFairness
=============================================================================
