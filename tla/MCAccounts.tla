----------------------------- MODULE MCAccounts -----------------------------
(* Accounts with three users, of whom two pay, and two handlers at once.     *)
EXTENDS Accounts, FiniteSets, TLC

CONSTANTS Second,    \* a payer who appears only beside another
          Unmanaged  \* the user who never pays

MCSymmetry == Permutations(Org) \cup Permutations(Handler)

Idle(u) ==
  /\ accounts[u] = None
  /\ u \in Payer => pending[u] = {} /\ sent[u] = 0
  /\ \A h \in Handler : job[h] # None => job[h].u # u

Unpaid ==
  /\ \A u \in Payer : pending[u] = {} /\ sent[u] = 0
  /\ \A h \in Handler : ~At(h, "checkout") /\ ~At(h, "checkoutOrg") /\ ~At(h, "checkoutLink")
                        /\ ~At(h, "link") /\ ~At(h, "linkAccount") /\ ~At(h, "linkPut")
  /\ \A o \in Org : orgs[o] # None => orgs[o].customer = None
  /\ \A u \in Payer : accounts[u] # None => orgs[accounts[u]] # None

(* Where there are two orgs, a payment fails when the link was used and no    *)
(* mint task is under way.                                                   *)
LateAlone(u) ==
  PastDue \in pending[u] => LinkRef \notin pending[u] /\ \A k \in Task : mints[k] = None

Uninvited ==
  /\ \A t \in Invite : invites[t] = None
  /\ \A h \in Handler : ~At(h, "accept")
  /\ \A u \in User : claims[u] = None
  /\ Cardinality(drawn) <= 1 \/ \A u \in Payer : LateAlone(u)

(* Two payers whose accounts point at the same org, brought there one step   *)
(* after the other, who then check out and are billed at the same time.      *)
OneAtATime ==
  /\ Unpaid
  /\ \A g, h \in Handler : job[g] # None /\ job[h] # None => g = h
  /\ accounts[Second] # None => \A u \in Payer : accounts[u] = accounts[Second]

BothPay ==
  /\ \A u \in Payer : accounts[u] # None /\ accounts[u] = accounts[Second]
  /\ \A k \in Task : mints[k] # None
  /\ \A u \in Payer : members[accounts[u]][u] # None /\ PastDue \notin pending[u]
  /\ \A h \in Handler : job[h] # None => job[h].at \notin {"me", "accept", "acceptApps"}

Sharing ==
  /\ Cardinality(drawn) <= 1
  /\ \A o \in Org : joined[o] \subseteq Payer /\ members[o][Second] # "admin"
  /\ \A t \in Invite : invites[t] # None => invites[t].role = "member"
  /\ \A u \in User : claims[u] = None
  /\ OneAtATime \/ BothPay

(* Bound: in a behaviour either orgs are shared by invites and nobody pays,  *)
(* or one pays and nobody is invited, or two payers share an org.            *)
MCApart ==
  \/ Unpaid /\ Idle(Second)
  \/ Uninvited /\ Idle(Second) /\ Idle(Unmanaged)
  \/ Sharing /\ Idle(Unmanaged)
=============================================================================
