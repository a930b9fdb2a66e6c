------------------------------ MODULE Accounts ------------------------------
(***************************************************************************)
(* The account service (runway-accounts): handlers that read and overwrite *)
(* whole documents of four collections, one await per document, with no    *)
(* transaction between them; webhooks of the payment provider that do the  *)
(* same; and background tasks that mint a user's token claims.             *)
(*                                                                         *)
(* Any number of handlers runs at once, up to Handler; each may fail at an *)
(* await, or die with the process, and leave what it wrote.                *)
(***************************************************************************)
EXTENDS Naturals

CONSTANTS
  User, Org, Invite,  \* uids, and the UUIDs that can be drawn
  Handler,     \* requests in progress at once
  Payer,       \* users who use the checkout
  Versions,    \* bound: subscription changes per payer
  Task,        \* bound: mint tasks in flight at once
  MayFail,     \* whether store calls fail and processes die
  None

Role == {"admin", "member"}
OrgDoc == [owner : User, customer : User \cup {None}, plan : Nat, sub : User \cup {None},
           late : BOOLEAN]  \* sub: the customer whose subscription the plan is of

ASSUME AccountsAssumption ==
  /\ Payer \subseteq User
  /\ Versions \in Nat /\ MayFail \in BOOLEAN
  /\ None \notin User /\ None \notin Org /\ None \notin OrgDoc \cup Role

VARIABLES
  accounts,  \* [User -> its org_id, None without a document]
  orgs,      \* [Org -> document or None]
  members,   \* [Org -> [User -> role or None]]
  invites,   \* [Invite -> document or None]
  claims,    \* [User -> custom claims at the identity provider, or None]
  mints,     \* [Task -> the claims it is about to set, or None]
  drawn,     \* org ids drawn so far (UUID v4: never twice)
  job,       \* [Handler -> its local state]
  pending,   \* [Payer -> provider events not yet acknowledged]
  sent,      \* [Payer -> latest subscription version; 0 none]
  joined,    \* history: [Org -> users who were ever its members]
  linkers    \* history: [Org -> payers who ever linked themselves to it]

store == <<accounts, orgs, members, invites>>
provider == <<pending, sent>>
history == <<joined, linkers>>
vars == <<store, claims, mints, drawn, job, provider, history>>

LinkRef == 0            \* the checkout-completed event
PastDue == Versions + 1 \* the payment-failed event
NewPersonal(u) ==
  [owner |-> u, customer |-> None, plan |-> 0, sub |-> None, late |-> FALSE]

Init ==
  /\ accounts = [u \in User |-> None]
  /\ orgs = [o \in Org |-> None]
  /\ members = [o \in Org |-> [u \in User |-> None]]
  /\ invites = [t \in Invite |-> None]
  /\ claims = [u \in User |-> None]
  /\ mints = [k \in Task |-> None]
  /\ drawn = {}
  /\ job = [h \in Handler |-> None]
  /\ pending = [u \in Payer |-> {}]
  /\ sent = [u \in Payer |-> 0]
  /\ joined = [o \in Org |-> {}]
  /\ linkers = [o \in Org |-> {}]

------------------------------------------------------------------------------
At(h, label) == job[h] # None /\ job[h].at = label
Goto(h, label, o, doc) ==
  job' = [job EXCEPT ![h].at = label, ![h].o = o, ![h].doc = doc]
Done(h) == job' = [job EXCEPT ![h] = None]

Start(h, label, u, t, p) ==
  /\ job[h] = None
  /\ job' = [job EXCEPT ![h] = [at |-> label, u |-> u, o |-> None, t |-> t,
                                doc |-> None, p |-> p]]

PutOrg(o, doc) == orgs' = [orgs EXCEPT ![o] = doc]
PutAccount(u, o) == accounts' = [accounts EXCEPT ![u] = o]
PutMember(o, u, role) ==
  /\ members' = [members EXCEPT ![o][u] = role]
  /\ joined' = [joined EXCEPT ![o] = @ \cup {u}]

(* mint_in_background spawns a task; one beyond Task fails at once.        *)
SpawnMint(u, o, plan, role) ==
  \/ \E k \in Task :
       /\ mints[k] = None
       /\ mints' = [mints EXCEPT ![k] = [uid |-> u, org |-> o, plan |-> plan, role |-> role]]
  \/ (\A k \in Task : mints[k] # None) /\ UNCHANGED mints

Draw(o) == o \notin drawn /\ drawn' = drawn \cup {o}

(* A store call fails, or the process dies: the handler is gone.           *)
Fail(h) ==
  /\ MayFail
  /\ job[h] # None
  /\ Done(h)
  /\ UNCHANGED <<store, claims, mints, drawn, provider, history>>

------------------------------------------------------------------------------
(* get_me and provision.                                                   *)
GetMe(h, u) ==
  /\ Start(h, "me", u, None, 0)
  /\ UNCHANGED <<store, claims, mints, drawn, provider, history>>

MeRead(h) ==
  /\ At(h, "me")
  /\ \/ accounts[job[h].u] # None /\ Done(h) /\ UNCHANGED drawn
     \/ /\ accounts[job[h].u] = None
        /\ \E o \in Org : Draw(o) /\ Goto(h, "meOrg", o, None)
  /\ UNCHANGED <<store, claims, mints, provider, history>>

MeOrg(h) ==
  /\ At(h, "meOrg")
  /\ PutOrg(job[h].o, NewPersonal(job[h].u))
  /\ Goto(h, "meMember", job[h].o, None)
  /\ UNCHANGED <<accounts, members, invites, claims, mints, drawn, provider, history>>

MeMember(h) ==
  /\ At(h, "meMember")
  /\ PutMember(job[h].o, job[h].u, "admin")
  /\ Goto(h, "meAccount", job[h].o, None)
  /\ UNCHANGED <<accounts, orgs, invites, claims, mints, drawn, provider, linkers>>

MeAccount(h) ==
  /\ At(h, "meAccount")
  /\ PutAccount(job[h].u, job[h].o)
  /\ SpawnMint(job[h].u, job[h].o, 0, "admin")
  /\ Done(h)
  /\ UNCHANGED <<orgs, members, invites, claims, drawn, provider, history>>

(* The org ids a user has seen: its account's and its token's.             *)
Knows(u, o) == o = accounts[u] \/ (claims[u] # None /\ o = claims[u].org)
IsAdmin(u) == claims[u] # None /\ claims[u].role = "admin"
MayManage(u, o) ==
  Knows(u, o) /\ orgs[o] # None /\ (orgs[o].owner = u \/ IsAdmin(u))

(* create_invite and remove_member read the org, whose owner never changes,*)
(* and write one document.                                                 *)
CreateInvite(u, o, t, role) ==
  /\ MayManage(u, o)
  /\ invites[t] = None
  /\ invites' = [invites EXCEPT ![t] = [org |-> o, role |-> role, used |-> None]]
  /\ UNCHANGED <<accounts, orgs, members, claims, mints, drawn, job, provider, history>>

(* Mutant: the billing owner can be removed.                               *)
RemoveAnyMember(u, o, v) ==
  /\ MayManage(u, o)
  /\ members' = [members EXCEPT ![o][v] = None]
  /\ UNCHANGED <<accounts, orgs, invites, claims, mints, drawn, job, provider, history>>

RemoveMember(u, o, v) ==
  /\ MayManage(u, o)
  /\ v # orgs[o].owner
  /\ members' = [members EXCEPT ![o][v] = None]
  /\ UNCHANGED <<accounts, orgs, invites, claims, mints, drawn, job, provider, history>>

(* accept_invite: seven awaits.  The invite may also have expired.         *)
AcceptInvite(h, u, t) ==
  /\ Start(h, "accept", u, t, 0)
  /\ UNCHANGED <<store, claims, mints, drawn, provider, history>>

AcceptRead(h) ==
  LET t == job[h].t
      valid == invites[t] # None /\ invites[t].used = None
  IN  /\ At(h, "accept")
      /\ \/ Done(h)
         \/ valid /\ Goto(h, "acceptCheck", invites[t].org, invites[t])
      /\ UNCHANGED <<store, claims, mints, drawn, provider, history>>

(* Mutants: the invite is marked before the member is written; the member  *)
(* is never written.                                                       *)
AcceptCheckTo(h, label) ==
  /\ At(h, "acceptCheck")
  /\ IF members[job[h].o][job[h].u] # None
       THEN Done(h)
       ELSE Goto(h, label, job[h].o, job[h].doc)
  /\ UNCHANGED <<store, claims, mints, drawn, provider, history>>
AcceptCheckMarksFirst(h) == AcceptCheckTo(h, "acceptMark")
AcceptCheckMintsFirst(h) == AcceptCheckTo(h, "acceptApps")

AcceptCheck(h) ==
  /\ At(h, "acceptCheck")
  /\ IF members[job[h].o][job[h].u] # None
       THEN Done(h)
       ELSE Goto(h, "acceptJoin", job[h].o, job[h].doc)
  /\ UNCHANGED <<store, claims, mints, drawn, provider, history>>

AcceptJoin(h) ==
  /\ At(h, "acceptJoin")
  /\ PutMember(job[h].o, job[h].u, job[h].doc.role)
  /\ Goto(h, "acceptMark", job[h].o, job[h].doc)
  /\ UNCHANGED <<accounts, orgs, invites, claims, mints, drawn, provider, linkers>>

AcceptMark(h) ==
  /\ At(h, "acceptMark")
  /\ invites' = [invites EXCEPT ![job[h].t] = [job[h].doc EXCEPT !.used = job[h].u]]
  /\ Goto(h, "acceptAccount", job[h].o, job[h].doc)
  /\ UNCHANGED <<accounts, orgs, members, claims, mints, drawn, provider, history>>

AcceptAccount(h) ==
  /\ At(h, "acceptAccount")
  /\ Goto(h, IF accounts[job[h].u] = None THEN "acceptPoint" ELSE "acceptApps",
          job[h].o, job[h].doc)
  /\ UNCHANGED <<store, claims, mints, drawn, provider, history>>

AcceptPoint(h) ==
  /\ At(h, "acceptPoint")
  /\ PutAccount(job[h].u, job[h].o)
  /\ Goto(h, "acceptApps", job[h].o, job[h].doc)
  /\ UNCHANGED <<orgs, members, invites, claims, mints, drawn, provider, history>>

AcceptApps(h) ==
  LET org == orgs[job[h].o]
  IN  /\ At(h, "acceptApps")
      /\ SpawnMint(job[h].u, job[h].o, IF org = None THEN 0 ELSE org.plan, job[h].doc.role)
      /\ Done(h)
      /\ UNCHANGED <<store, claims, drawn, provider, history>>

(* The mint task replaces the user's claims, or fails with a log line.     *)
Mint(k) ==
  /\ mints[k] # None
  /\ mints' = [mints EXCEPT ![k] = None]
  /\ claims' = [claims EXCEPT ![mints[k].uid] = mints[k]]
  /\ UNCHANGED <<store, drawn, job, provider, history>>

MintFails(k) ==
  /\ mints[k] # None
  /\ mints' = [mints EXCEPT ![k] = None]
  /\ UNCHANGED <<store, claims, drawn, job, provider, history>>

------------------------------------------------------------------------------
(* create_checkout: link the customer to the org of the caller's account,  *)
(* errors ignored, and open a session the provider then completes.         *)
Checkout(h, u) ==
  /\ Start(h, "checkout", u, None, 0)
  /\ UNCHANGED <<store, claims, mints, drawn, provider, history>>

CheckoutAccount(h) ==
  LET o == accounts[job[h].u]
  IN  /\ At(h, "checkout")
      /\ IF o = None THEN Done(h) ELSE Goto(h, "checkoutOrg", o, None)
      /\ UNCHANGED <<store, claims, mints, drawn, provider, history>>

Completed(u) == pending' = [pending EXCEPT ![u] = @ \cup {LinkRef}]

CheckoutRead(h) ==
  LET o == job[h].o
  IN  /\ At(h, "checkoutOrg")
      /\ IF orgs[o] # None /\ orgs[o].customer # job[h].u
           THEN Goto(h, "checkoutLink", o, orgs[o]) /\ UNCHANGED pending
           ELSE Done(h) /\ Completed(job[h].u)
      /\ UNCHANGED <<store, claims, mints, drawn, sent, history>>

Link(h) ==
  /\ PutOrg(job[h].o, [job[h].doc EXCEPT !.customer = job[h].u])
  /\ linkers' = [linkers EXCEPT ![job[h].o] = @ \cup {job[h].u}]

CheckoutLink(h) ==
  /\ At(h, "checkoutLink")
  /\ Link(h) \/ UNCHANGED <<orgs, linkers>>
  /\ Done(h)
  /\ Completed(job[h].u)
  /\ UNCHANGED <<accounts, members, invites, claims, mints, drawn, sent, joined>>

(* "checkout completed before /v1/accounts/me": one begun elsewhere.       *)
CheckoutElsewhere(u) ==
  /\ accounts[u] = None
  /\ Completed(u)
  /\ UNCHANGED <<store, claims, mints, drawn, job, sent, history>>

(* The provider: events of one customer, delivered in any order.  Answered *)
(* 200 whatever became of it in the store, an event is not sent again,     *)
(* unless the answer is lost or the process dies before it.                *)
Subscribe(u) ==
  /\ pending[u] # {} \/ sent[u] > 0
  /\ sent[u] < Versions
  /\ sent' = [sent EXCEPT ![u] = @ + 1]
  /\ pending' = [pending EXCEPT ![u] = @ \cup {sent[u] + 1}]
  /\ UNCHANGED <<store, claims, mints, drawn, job, history>>

PaymentFails(u) ==
  /\ sent[u] > 0
  /\ pending' = [pending EXCEPT ![u] = @ \cup {PastDue}]
  /\ UNCHANGED <<store, claims, mints, drawn, job, sent, history>>

StripeWebhook(h, u, e) ==
  /\ e \in pending[u]
  /\ Start(h, IF e = LinkRef THEN "link" ELSE "find", u, None, e)
  /\ pending' \in {pending, [pending EXCEPT ![u] = @ \ {e}]}
  /\ UNCHANGED <<store, claims, mints, drawn, sent, history>>

(* resolve_or_create_org                                                   *)
LinkRead(h) ==
  LET u == job[h].u
  IN  /\ At(h, "link")
      /\ \/ /\ accounts[u] # None
            /\ Goto(h, "linkGet", accounts[u], None)
            /\ UNCHANGED drawn
         \/ /\ accounts[u] = None
            /\ \E o \in Org : Draw(o) /\ Goto(h, "linkAccount", o, NewPersonal(u))
      /\ UNCHANGED <<store, claims, mints, provider, history>>

LinkAccount(h) ==
  /\ At(h, "linkAccount")
  /\ PutAccount(job[h].u, job[h].o)
  /\ Goto(h, "linkPut", job[h].o, job[h].doc)
  /\ UNCHANGED <<orgs, members, invites, claims, mints, drawn, provider, history>>

LinkGet(h) ==
  LET o == job[h].o
  IN  /\ At(h, "linkGet")
      /\ \/ /\ orgs[o] # None
            /\ Goto(h, "linkPut", o, orgs[o])
            /\ UNCHANGED drawn
         \/ /\ orgs[o] = None
            /\ \E n \in Org : Draw(n) /\ Goto(h, "linkPut", n, NewPersonal(job[h].u))
      /\ UNCHANGED <<store, claims, mints, provider, history>>

LinkPut(h) ==
  /\ At(h, "linkPut")
  /\ Link(h)
  /\ Done(h)
  /\ UNCHANGED <<accounts, members, invites, claims, mints, drawn, provider, joined>>

(* Mutant: the org is looked up by its owner, not by its customer.         *)
FindOrgByOwner(h) ==
  LET owned == {o \in Org : orgs[o] # None /\ orgs[o].owner = job[h].u}
  IN  /\ At(h, "find")
      /\ \/ owned = {} /\ Done(h)
         \/ \E o \in owned : Goto(h, "apply", o, orgs[o])
      /\ UNCHANGED <<store, claims, mints, drawn, provider, history>>

(* handle_subscription_projection and handle_subscription_status: find the *)
(* org by customer, overwrite it; without one the event is dropped.        *)
FindOrg(h) ==
  LET linked == {o \in Org : orgs[o] # None /\ orgs[o].customer = job[h].u}
  IN  /\ At(h, "find")
      /\ \/ linked = {} /\ Done(h)
         \/ \E o \in linked : Goto(h, "apply", o, orgs[o])
      /\ UNCHANGED <<store, claims, mints, drawn, provider, history>>

ApplyProjection(h) ==
  LET org == [job[h].doc EXCEPT !.plan = job[h].p, !.sub = job[h].u, !.late = FALSE]
  IN  /\ At(h, "apply") /\ job[h].p # PastDue
      /\ PutOrg(job[h].o, org)
      /\ SpawnMint(org.owner, job[h].o, org.plan, "admin")
      /\ Done(h)
      /\ UNCHANGED <<accounts, members, invites, claims, drawn, provider, history>>

ApplyStatus(h) ==
  /\ At(h, "apply") /\ job[h].p = PastDue
  /\ PutOrg(job[h].o, [job[h].doc EXCEPT !.late = TRUE])
  /\ Done(h)
  /\ UNCHANGED <<accounts, members, invites, claims, mints, drawn, provider, history>>

Step(h) ==
  \/ MeRead(h) \/ MeOrg(h) \/ MeMember(h) \/ MeAccount(h)
  \/ AcceptRead(h) \/ AcceptCheck(h) \/ AcceptJoin(h) \/ AcceptMark(h)
  \/ AcceptAccount(h) \/ AcceptPoint(h) \/ AcceptApps(h)
  \/ CheckoutAccount(h) \/ CheckoutRead(h) \/ CheckoutLink(h)
  \/ LinkRead(h) \/ LinkAccount(h) \/ LinkGet(h) \/ LinkPut(h)
  \/ FindOrg(h) \/ ApplyProjection(h) \/ ApplyStatus(h)

Next ==
  \/ \E h \in Handler, u \in User : GetMe(h, u)
  \/ \E h \in Handler, u \in User, t \in Invite : AcceptInvite(h, u, t)
  \/ \E h \in Handler, u \in Payer : Checkout(h, u)
  \/ \E h \in Handler, u \in Payer, e \in 0 .. PastDue : StripeWebhook(h, u, e)
  \/ \E h \in Handler : Step(h) \/ Fail(h)
  \/ \E u \in User, o \in Org, t \in Invite, r \in Role : CreateInvite(u, o, t, r)
  \/ \E u, v \in User, o \in Org : RemoveMember(u, o, v)
  \/ \E k \in Task : Mint(k) \/ MintFails(k)
  \/ \E u \in Payer : CheckoutElsewhere(u) \/ Subscribe(u) \/ PaymentFails(u)

Spec == Init /\ [][Next]_vars

------------------------------------------------------------------------------
OwnerAdmin(u) ==
  LET o == accounts[u]
  IN  (o # None /\ orgs[o] # None /\ orgs[o].owner = u) => members[o][u] = "admin"

(* The owner of the org its account points at is a member with the admin   *)
(* role, and cannot lose it, if get_me made the org.                       *)
OwnerIsAdmin == \A u \in User \ Payer : OwnerAdmin(u)

(* Nothing says that a user belongs to an org it never joined: an invite   *)
(* is marked as used by somebody only after that user joined, and a token  *)
(* never names an org the user neither owns nor ever joined, however late  *)
(* the mint task ran.                                                      *)
MembershipIsEarned ==
  /\ \A t \in Invite : (invites[t] # None /\ invites[t].used # None)
       => invites[t].used \in joined[invites[t].org]
  /\ \A u \in User : claims[u] # None =>
       \/ u \in joined[claims[u].org]
       \/ orgs[claims[u].org] # None /\ orgs[claims[u].org].owner = u

(* Handlers overwrite an org with stale copies of it, and a second payer    *)
(* puts himself in the place of the first.  Still a paid plan is of the     *)
(* subscription of a payer who linked himself to this very org, and the     *)
(* customer in its document, who may be another, linked himself to it too:  *)
(* no payment ever lands on an org its payer did not choose, and no copy    *)
(* takes the customer out again.                                            *)
PaidOrgIsLinked ==
  \A o \in Org : (orgs[o] # None /\ orgs[o].plan > 0) =>
    orgs[o].sub \in linkers[o] /\ orgs[o].customer \in linkers[o]
==============================================================================
