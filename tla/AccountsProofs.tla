---------------------------- MODULE AccountsProofs ----------------------------
(***************************************************************************)
(* The three safety properties of Accounts, for any users, orgs, invites,   *)
(* requests and mint tasks.  The documents are written one by one, so the   *)
(* invariant says of each job what it may rely on between two awaits: that  *)
(* an org it is about to overwrite still has the owner of its copy, that an *)
(* org whose owner is not seated yet is known to nobody, and that whoever a *)
(* token is minted for joined the org or owns it.                           *)
(***************************************************************************)
EXTENDS Accounts, TLAPS

InviteDoc == [org : Org, role : Role, used : User \cup {None}]
Claim == [uid : User, org : Org, plan : Nat, role : Role]

Unplaced == {"me", "accept", "checkout", "link", "find"}
Accepting == {"acceptCheck", "acceptJoin", "acceptMark", "acceptAccount", "acceptPoint", "acceptApps"}
HasJoined == {"meAccount", "acceptMark", "acceptAccount", "acceptPoint", "acceptApps"}
Paying == {"checkout", "checkoutOrg", "checkoutLink", "link", "linkAccount", "linkGet", "linkPut",
           "find", "apply"}
Overwriting == {"linkAccount", "linkPut", "checkoutLink", "apply"}
Creating == {"meOrg", "linkAccount", "linkPut"}
Seating == {"meOrg", "meMember"}
Label == Unplaced \cup Accepting \cup HasJoined \cup Paying \cup Seating

Job == [at : Label, u : User, o : Org \cup {None}, t : Invite \cup {None},
        doc : OrgDoc \cup InviteDoc \cup {None}, p : Nat]

TypeOK ==
  /\ accounts \in [User -> Org \cup {None}]
  /\ orgs \in [Org -> OrgDoc \cup {None}]
  /\ members \in [Org -> [User -> Role \cup {None}]]
  /\ invites \in [Invite -> InviteDoc \cup {None}]
  /\ claims \in [User -> Claim \cup {None}]
  /\ mints \in [Task -> Claim \cup {None}]
  /\ drawn \subseteq Org
  /\ job \in [Handler -> Job \cup {None}]
  /\ joined \in [Org -> SUBSET User]
  /\ linkers \in [Org -> SUBSET Payer]

(* An org that is named anywhere was drawn, and an invite is to one that exists. *)
NamedIsDrawn ==
  /\ \A u \in User : accounts[u] \in drawn \cup {None}
  /\ \A o \in Org : orgs[o] # None => o \in drawn
  /\ \A t \in Invite : invites[t] # None => invites[t].org \in drawn /\ orgs[invites[t].org] # None
  /\ \A u \in User : claims[u] # None => claims[u].org \in drawn
  /\ \A k \in Task : mints[k] # None => mints[k].org \in drawn

(* Whoever a document names as customer, or as the payer of its plan, linked *)
(* himself to that org.                                                     *)
LinkedDoc(d, o) ==
  /\ d.customer # None => d.customer \in linkers[o]
  /\ d.plan > 0 => d.customer # None /\ d.sub \in linkers[o]

OrgsAreLinked == \A o \in Org : orgs[o] # None => LinkedDoc(orgs[o], o)

(* What a job relies on.                                                    *)
MayRely(x) ==
  /\ IF x.at \in Unplaced THEN x.o = None ELSE x.o \in drawn
  /\ x.at \in Paying => x.u \in Payer
  /\ x.at \in {"meOrg", "linkAccount"} => orgs[x.o] = None
  /\ x.at \in {"meMember", "meAccount"} => orgs[x.o] # None /\ orgs[x.o].owner = x.u
  /\ x.at = "meMember" => orgs[x.o].customer = None
  /\ x.at \in Accepting \cup {"accept"} => x.t \in Invite
  /\ x.at \in Accepting => x.doc \in InviteDoc /\ x.doc.org = x.o /\ orgs[x.o] # None
  /\ x.at \in HasJoined => x.u \in joined[x.o]
  /\ x.at = "acceptJoin" => x.u \in Payer \/ orgs[x.o].owner # x.u
  /\ x.at \in Overwriting =>
       /\ x.doc \in OrgDoc /\ LinkedDoc(x.doc, x.o)
       /\ IF orgs[x.o] = None THEN x.at \in Creating /\ x.doc.owner \in Payer
                              ELSE x.doc.owner = orgs[x.o].owner
  /\ x.at = "apply" => x.doc.customer = x.u

JobsRely == \A h \in Handler : job[h] # None => MayRely(job[h])

(* An org that does not exist yet is made by one job at most.               *)
CreatorsAreApart ==
  \A g, h \in Handler :
    /\ job[g] # None /\ job[h] # None
    /\ job[g].at \in Creating /\ job[h].at \in Creating
    /\ job[g].o = job[h].o /\ orgs[job[g].o] = None
    => g = h

Unknown(o) ==
  /\ \A u \in User : accounts[u] # o
  /\ \A u \in User : claims[u] # None => claims[u].org # o
  /\ \A k \in Task : mints[k] # None => mints[k].org # o
  /\ \A t \in Invite : invites[t] # None => invites[t].org # o

(* While get_me makes an org, nobody else knows it.                         *)
MadeUnseen ==
  \A h \in Handler : job[h] # None /\ job[h].at \in Seating =>
    /\ Unknown(job[h].o)
    /\ \A g \in Handler : g # h /\ job[g] # None => job[g].o # job[h].o

Unseated(o) ==
  /\ orgs[o] # None /\ orgs[o].owner \notin Payer
  /\ members[o][orgs[o].owner] # "admin"

(* Nobody ever learns of an org whose owner is not its admin, unless the    *)
(* checkout made it.                                                        *)
KnownIsSeated ==
  \A o \in Org : Unseated(o) =>
    /\ orgs[o].customer = None /\ Unknown(o)
    /\ \A h \in Handler : job[h] # None /\ job[h].o = o => job[h].at = "meMember"

Earned(c) ==
  \/ c.uid \in joined[c.org]
  \/ orgs[c.org] # None /\ orgs[c.org].owner = c.uid

ClaimsAreEarned ==
  /\ \A u \in User : claims[u] # None => claims[u].uid = u /\ Earned(claims[u])
  /\ \A k \in Task : mints[k] # None => Earned(mints[k])

IInv ==
  /\ TypeOK
  /\ NamedIsDrawn
  /\ JobsRely
  /\ CreatorsAreApart
  /\ MadeUnseen
  /\ KnownIsSeated
  /\ ClaimsAreEarned
  /\ MembershipIsEarned
  /\ OrgsAreLinked

------------------------------------------------------------------------------
USE DEF history

(* Init.                                                                    *)
LEMMA InitIInv == Init => IInv
<1> SUFFICES ASSUME Init PROVE IInv
    OBVIOUS
<1>1. TypeOK /\ NamedIsDrawn
    BY AccountsAssumption DEF Init, TypeOK, NamedIsDrawn
<1>2. JobsRely /\ CreatorsAreApart /\ MadeUnseen
    BY DEF Init, JobsRely, CreatorsAreApart, MadeUnseen
<1>3. KnownIsSeated /\ ClaimsAreEarned /\ MembershipIsEarned /\ OrgsAreLinked
    BY DEF Init, KnownIsSeated, Unseated, ClaimsAreEarned, MembershipIsEarned, OrgsAreLinked
<1> QED
    BY <1>1, <1>2, <1>3 DEF IInv

(* The job that Goto leaves.                                                *)
After(x, label, o, doc) == [at |-> label, u |-> x.u, o |-> o, t |-> x.t, doc |-> doc, p |-> x.p]

(* Goto replaces the job by the one that comes after it, and keeps its type. *)
LEMMA GotoMoves ==
  ASSUME TypeOK, NEW h \in Handler, job[h] # None,
         NEW label \in Label, NEW o \in Org \cup {None}, NEW doc \in OrgDoc \cup InviteDoc \cup {None},
         Goto(h, label, o, doc)
  PROVE  /\ job[h] \in Job /\ After(job[h], label, o, doc) \in Job
         /\ job' = [job EXCEPT ![h] = After(job[h], label, o, doc)]
<1>1. job[h] \in Job
    BY DEF TypeOK
<1>2. ASSUME NEW x \in Job
      PROVE  [x EXCEPT !.at = label, !.o = o, !.doc = doc] = After(x, label, o, doc)
  <2> DEFINE y == [x EXCEPT !.at = label, !.o = o, !.doc = doc]
  <2>1. y \in Job /\ y.at = label /\ y.u = x.u /\ y.o = o /\ y.t = x.t /\ y.doc = doc /\ y.p = x.p
      BY DEF Job
  <2>2. ASSUME NEW z \in Job
        PROVE  z = [at |-> z.at, u |-> z.u, o |-> z.o, t |-> z.t, doc |-> z.doc, p |-> z.p]
      BY DEF Job
  <2> HIDE DEF y
  <2>3. y = [at |-> y.at, u |-> y.u, o |-> y.o, t |-> y.t, doc |-> y.doc, p |-> y.p]
      BY <2>1, <2>2
  <2> QED
      BY <2>1, <2>3 DEF y, After
<1>3. After(job[h], label, o, doc) \in Job
    BY <1>1 DEF Job, After
<1>4. job' = [job EXCEPT ![h] = [job[h] EXCEPT !.at = label, !.o = o, !.doc = doc]]
    BY DEF Goto, TypeOK
<1>5. [job[h] EXCEPT !.at = label, !.o = o, !.doc = doc] = After(job[h], label, o, doc)
    BY <1>1, <1>2, Zenon
<1> QED
    BY <1>1, <1>3, <1>4, <1>5, Zenon

(* A job x may stand at h: it meets no other where only one may be.         *)
Fits(h, x) ==
  /\ \A g \in Handler \ {h} : job[g] # None =>
       /\ x.at \in Creating /\ job[g].at \in Creating /\ orgs[x.o] = None => job[g].o # x.o
       /\ x.at \in Seating \/ job[g].at \in Seating => job[g].o # x.o
  /\ x.at \in Seating => Unknown(x.o)
  /\ x.o \in Org /\ Unseated(x.o) => x.at = "meMember"

(* A step that moves one job and writes nothing.                            *)
LEMMA JobMoves ==
  ASSUME IInv, UNCHANGED <<store, claims, mints, history>>, drawn \subseteq drawn', drawn' \subseteq Org,
         NEW h \in Handler, NEW x \in Job \cup {None}, job' = [job EXCEPT ![h] = x],
         x # None => MayRely(x)' /\ Fits(h, x)
  PROVE  IInv'
<1> USE DEF store
<1>1. TypeOK'
    BY DEF IInv, TypeOK
<1>2. NamedIsDrawn'
    BY DEF IInv, NamedIsDrawn
<1>3. JobsRely'
  <2>1. ASSUME NEW g \in Handler, g # h, job[g] # None
        PROVE  MayRely(job[g])'
      BY <2>1 DEF IInv, TypeOK, JobsRely, MayRely, LinkedDoc
  <2> QED
      BY <2>1 DEF IInv, TypeOK, JobsRely, MayRely
<1>4. CreatorsAreApart'
    BY DEF IInv, TypeOK, CreatorsAreApart, Fits
<1>5. MadeUnseen'
    BY DEF IInv, TypeOK, MadeUnseen, Fits, Unknown
<1>6. KnownIsSeated'
    BY DEF IInv, TypeOK, KnownIsSeated, Unseated, Fits, Unknown
<1>7. ClaimsAreEarned' /\ MembershipIsEarned' /\ OrgsAreLinked'
    BY DEF IInv, ClaimsAreEarned, Earned, MembershipIsEarned, OrgsAreLinked, LinkedDoc
<1> QED
    BY <1>1, <1>2, <1>3, <1>4, <1>5, <1>6, <1>7 DEF IInv

(* A step that moves none.                                                  *)
LEMMA NothingMoves ==
  ASSUME IInv, UNCHANGED <<store, claims, mints, drawn, job, history>>
  PROVE  IInv'
<1>1. TypeOK' /\ NamedIsDrawn'
    BY DEF store, IInv, TypeOK, NamedIsDrawn
<1>2. JobsRely' /\ CreatorsAreApart'
    BY DEF store, IInv, JobsRely, MayRely, LinkedDoc, CreatorsAreApart
<1>3. MadeUnseen' /\ KnownIsSeated'
    BY DEF store, IInv, MadeUnseen, KnownIsSeated, Unseated, Unknown
<1>4. ClaimsAreEarned' /\ MembershipIsEarned' /\ OrgsAreLinked'
    BY DEF store, IInv, ClaimsAreEarned, Earned, MembershipIsEarned, OrgsAreLinked, LinkedDoc
<1> QED
    BY <1>1, <1>2, <1>3, <1>4 DEF IInv

(* A request that ends, or dies at an await, leaves nothing behind it.      *)
LEMMA DoneKeeps ==
  ASSUME IInv, NEW h \in Handler, Done(h), UNCHANGED <<store, claims, mints, drawn, history>>
  PROVE  IInv'
<1>1. drawn \subseteq drawn' /\ drawn' \subseteq Org
    BY DEF IInv, TypeOK
<1>2. job' = [job EXCEPT ![h] = None]
    BY DEF Done
<1> QED
    BY <1>1, <1>2, JobMoves

(* A request that begins names no org yet.                                  *)
LEMMA StartKeeps ==
  ASSUME IInv, NEW h \in Handler, NEW label \in Unplaced, NEW u \in User,
         NEW t \in Invite \cup {None}, NEW p \in Nat, Start(h, label, u, t, p),
         label \in Paying => u \in Payer, label = "accept" => t \in Invite,
         UNCHANGED <<store, claims, mints, drawn, history>>
  PROVE  IInv'
<1> DEFINE x == [at |-> label, u |-> u, o |-> None, t |-> t, doc |-> None, p |-> p]
<1>1. drawn \subseteq drawn' /\ drawn' \subseteq Org
    BY DEF IInv, TypeOK
<1>2. x \in Job /\ job' = [job EXCEPT ![h] = x]
    BY DEF Start, Job, Label
<1>3. MayRely(x)'
    BY DEF MayRely, Unplaced, Accepting, HasJoined, Overwriting
<1>4. Fits(h, x)
    BY AccountsAssumption DEF Fits, Unplaced, Creating, Seating, IInv, TypeOK, JobsRely, MayRely
<1> HIDE DEF x
<1> QED
    BY <1>1, <1>2, <1>3, <1>4, JobMoves

(* Where a job may go on: with the org it has, with one that is known, with *)
(* one just drawn.                                                          *)
LEMMA StaysFit ==
  ASSUME IInv, NEW h \in Handler, job[h] # None, job[h].at \notin Seating, NEW x, x.o = job[h].o,
         x.at \notin Seating, x.at \notin Creating
  PROVE  Fits(h, x)
BY DEF IInv, Fits, MadeUnseen, KnownIsSeated, Seating

(* A job may go on to an org that somebody knows: its owner is seated.      *)
LEMMA KnownFits ==
  ASSUME IInv, NEW h \in Handler, NEW x, ~Unknown(x.o), x.at \notin Seating,
         x.at \notin Creating \/ orgs[x.o] # None
  PROVE  Fits(h, x)
BY DEF IInv, Fits, MadeUnseen, KnownIsSeated

(* A job may go on to an org it just drew: no other names it.               *)
LEMMA NewFits ==
  ASSUME IInv, NEW h \in Handler, NEW x, x.o \in Org, x.o \notin drawn
  PROVE  Fits(h, x)
<1>1. \A g \in Handler : job[g] # None => job[g].o # x.o
    BY AccountsAssumption DEF IInv, JobsRely, MayRely
<1>2. Unknown(x.o) /\ orgs[x.o] = None
    BY AccountsAssumption DEF IInv, NamedIsDrawn, Unknown
<1> QED
    BY <1>1, <1>2 DEF Fits, Unseated

(* A step that writes about one org o: what it adds to the accounts, the    *)
(* invites, the tokens and the jobs names o, and nobody is seating an owner *)
(* in o when it is done.                                                    *)
Documents(o) ==
  /\ \A n \in Org \ {o} : orgs'[n] = orgs[n] /\ members'[n] = members[n]
  /\ orgs[o] # None => orgs'[o] # None /\ orgs'[o].owner = orgs[o].owner
  /\ orgs'[o] # None => LinkedDoc(orgs[o], o)'
  /\ ~Unseated(o)'
  /\ \A n \in Org : joined[n] \subseteq joined'[n] /\ linkers[n] \subseteq linkers'[n]
  /\ drawn' = drawn

Names(o) ==
  /\ \A u \in User : accounts'[u] \in {accounts[u], o}
  /\ \A t \in Invite : invites'[t] # None /\ invites'[t] # invites[t] =>
       orgs'[o] # None /\ invites'[t].org = o /\ invites'[t].used \in joined'[o] \cup {None}
  /\ \A k \in Task : mints'[k] # None /\ mints'[k] # mints[k] =>
       mints'[k].org = o /\ Earned(mints[k])'
  /\ \A u \in User : claims'[u] # None /\ claims'[u] # claims[u] =>
       claims'[u].org = o /\ claims'[u].uid = u /\ Earned(claims[u])'

Jobs(o) ==
  \A g \in Handler : job'[g] # None =>
    /\ \/ /\ job'[g] = job[g]
          /\ orgs[o] = None /\ orgs'[o] # None /\ job[g].o = o => job[g].at \notin Creating
       \/ /\ job[g] # None /\ job[g].o = o /\ job'[g].o = o
          /\ job'[g].at \in Creating => job[g].at \in Creating
          /\ MayRely(job[g])'
    /\ job'[g].at \in Seating => job'[g].o # o

(* Nobody who linked himself is forgotten.                                  *)
LEMMA LinkedStays ==
  ASSUME NEW d, NEW o, linkers[o] \subseteq linkers'[o], LinkedDoc(d, o)
  PROVE  LinkedDoc(d, o)'
BY DEF LinkedDoc

(* What another job relies on is untouched by what is written about one org. *)
LEMMA RelyStays ==
  ASSUME NEW o \in Org, Documents(o), NEW y \in Job, MayRely(y), y.o = o => y.at \notin Seating,
         orgs[o] = None /\ orgs'[o] # None /\ y.o = o => y.at \notin Creating,
         drawn \subseteq Org
  PROVE  MayRely(y)'
<1>0. y.at \in Overwriting => y.doc \in OrgDoc /\ LinkedDoc(y.doc, y.o)'
  <2> SUFFICES ASSUME y.at \in Overwriting PROVE y.doc \in OrgDoc /\ LinkedDoc(y.doc, y.o)'
      OBVIOUS
  <2>1. y.o \in Org /\ y.doc \in OrgDoc /\ LinkedDoc(y.doc, y.o)
      BY DEF MayRely, Overwriting, Unplaced
  <2>2. linkers[y.o] \subseteq linkers'[y.o]
      BY <2>1 DEF Documents
  <2> QED
      BY <2>1, <2>2, LinkedStays
<1>1. CASE y.o = o
  <2>1. orgs[o] = orgs'[o] \/ orgs[o] = None \/ (orgs[o] # None /\ orgs'[o] # None /\ orgs'[o].owner = orgs[o].owner)
      BY DEF Documents
  <2>2. CASE orgs[o] = None
    <3>1. orgs'[o] = None \/ y.at \notin Creating
        BY <1>1, <2>2
    <3> QED
        BY <1>0, <1>1, <2>2, <3>1 DEF Documents, MayRely, Creating, Seating, Overwriting, HasJoined, Accepting
  <2>3. CASE orgs[o] # None
      BY <1>0, <1>1, <2>3 DEF Documents, MayRely, Creating, Seating, Overwriting, HasJoined, Accepting
  <2> QED
      BY <2>2, <2>3
<1>2. CASE y.o # o
    BY <1>0, <1>2 DEF Documents, MayRely, Unplaced, Overwriting, HasJoined, Accepting
<1> QED
    BY <1>1, <1>2

(* A step that writes about one org, as above, keeps the invariant.         *)
LEMMA WriteKeeps ==
  ASSUME IInv, TypeOK', NEW o \in drawn, Documents(o), Names(o), Jobs(o)
  PROVE  IInv'
<1>1. o \in Org /\ drawn \subseteq Org
    BY DEF IInv, TypeOK
<1>2. NamedIsDrawn'
    BY <1>1 DEF IInv, NamedIsDrawn, Documents, Names
<1>3. JobsRely'
  <2> SUFFICES ASSUME NEW g \in Handler, job'[g] # None PROVE MayRely(job[g])'
      BY DEF JobsRely
  <2>1. CASE job'[g] = job[g]
    <3> PICK y : y = job[g]
        OBVIOUS
    <3>1. y \in Job /\ MayRely(y)
        BY <2>1 DEF IInv, JobsRely, TypeOK
    <3>2. MayRely(y)'
        BY <1>1, <2>1, <3>1, RelyStays DEF Jobs
    <3> QED
        BY <2>1, <3>2 DEF MayRely
  <2>2. CASE job'[g] # job[g]
      BY <2>2 DEF Jobs, MayRely
  <2> QED
      BY <2>1, <2>2
<1>4. CreatorsAreApart'
  <2> SUFFICES ASSUME NEW g \in Handler, NEW h \in Handler, job'[g] # None, job'[h] # None,
                      job'[g].at \in Creating, job'[h].at \in Creating,
                      job'[g].o = job'[h].o, orgs'[job'[g].o] = None
               PROVE  g = h
      BY DEF CreatorsAreApart
  <2>1. job'[g].o \in Org
      BY <1>1, <1>3 DEF JobsRely, MayRely, Unplaced, Creating, Documents
  <2>2. orgs[job'[g].o] = None
      BY <1>1, <2>1 DEF Documents
  <2>3. /\ job[g] # None /\ job[g].o = job'[g].o /\ job[g].at \in Creating
        /\ job[h] # None /\ job[h].o = job'[h].o /\ job[h].at \in Creating
      BY DEF Jobs
  <2> QED
      BY <2>2, <2>3 DEF IInv, CreatorsAreApart
<1>5. \A n \in Org \ {o} : Unknown(n) => Unknown(n)'
    BY <1>1 DEF Names, Unknown
<1>6. MadeUnseen'
    BY <1>1, <1>5 DEF IInv, MadeUnseen, Jobs, JobsRely, MayRely, Seating, Unplaced
<1>7. KnownIsSeated'
    BY <1>1, <1>5 DEF IInv, KnownIsSeated, Unseated, Documents, Jobs
<1>8. \A c \in Claim : Earned(c) => Earned(c)'
    BY <1>1 DEF Earned, Documents, Claim
<1>9. ClaimsAreEarned'
    BY <1>8 DEF IInv, TypeOK, ClaimsAreEarned, Names
<1>10. MembershipIsEarned'
  <2>1. ASSUME NEW t \in Invite, invites'[t] # None, invites'[t].used # None
        PROVE  invites'[t].used \in joined'[invites'[t].org]
    <3>1. CASE invites'[t] = invites[t]
        BY <2>1, <3>1 DEF IInv, TypeOK, InviteDoc, MembershipIsEarned, Documents
    <3>2. CASE invites'[t] # invites[t]
        BY <2>1, <3>2 DEF Names
    <3> QED
        BY <3>1, <3>2
  <2>2. ASSUME NEW u \in User, claims'[u] # None
        PROVE  \/ u \in joined'[claims'[u].org]
               \/ orgs'[claims'[u].org] # None /\ orgs'[claims'[u].org].owner = u
      BY <1>9, <2>2 DEF ClaimsAreEarned, Earned
  <2> QED
      BY <2>1, <2>2 DEF MembershipIsEarned
<1>11. OrgsAreLinked'
  <2> SUFFICES ASSUME NEW n \in Org, orgs'[n] # None PROVE LinkedDoc(orgs[n], n)'
      BY DEF OrgsAreLinked
  <2>1. CASE n = o
      BY <2>1 DEF Documents
  <2>2. CASE n # o
    <3> PICK d : d = orgs[n]
        OBVIOUS
    <3>1. orgs'[n] = d /\ linkers[n] \subseteq linkers'[n]
        BY <1>1, <2>2 DEF Documents
    <3>2. LinkedDoc(d, n)
        BY <3>1 DEF IInv, OrgsAreLinked
    <3>3. LinkedDoc(d, n)'
        BY <3>1, <3>2, LinkedStays
    <3> QED
        BY <3>1, <3>3 DEF LinkedDoc
  <2> QED
      BY <2>1, <2>2
<1> QED
    BY <1>2, <1>3, <1>4, <1>6, <1>7, <1>9, <1>10, <1>11 DEF IInv

(* Where a job that is neither making an org nor seating its owner stands,  *)
(* the org is seated and nobody else is at that either.                     *)
LEMMA JobStands ==
  ASSUME IInv, NEW h \in Handler, job[h] # None, job[h].at \notin Unplaced
  PROVE  /\ job[h] \in Job /\ MayRely(job[h])
         /\ job[h].u \in User /\ job[h].o \in drawn /\ job[h].o \in Org
         /\ job[h].at # "meMember" => ~Unseated(job[h].o)
BY DEF IInv, TypeOK, JobsRely, MayRely, Job, KnownIsSeated

(* A job that stays with its org may write about it: nobody else makes it.  *)
LEMMA MovesOn ==
  ASSUME IInv, NEW h \in Handler, job[h] # None, job[h].at # "meOrg",
         NEW o \in Org, o = job[h].o,
         NEW x \in Job \cup {None}, job' = [job EXCEPT ![h] = x],
         orgs[o] = None /\ orgs'[o] # None => job[h].at \in Creating,
         x # None => /\ x.o = o /\ x.at \notin Seating /\ MayRely(x)'
                     /\ x.at \in Creating => job[h].at \in Creating
  PROVE  Jobs(o)
<1> SUFFICES ASSUME NEW g \in Handler, job'[g] # None
             PROVE  /\ \/ /\ job'[g] = job[g]
                          /\ orgs[o] = None /\ orgs'[o] # None /\ job[g].o = o => job[g].at \notin Creating
                       \/ /\ job[g] # None /\ job[g].o = o /\ job'[g].o = o
                          /\ job'[g].at \in Creating => job[g].at \in Creating
                          /\ MayRely(job[g])'
                    /\ job'[g].at \in Seating => job'[g].o # o
    BY Zenon DEF Jobs
<1>1. CASE g = h
  <2>1. job'[g] = x
      BY <1>1 DEF IInv, TypeOK
  <2>2. MayRely(job[g])'
      BY <2>1 DEF MayRely
  <2> QED
      BY <1>1, <2>1, <2>2
<1>2. CASE g # h
  <2>1. job'[g] = job[g]
      BY <1>2 DEF IInv, TypeOK
  <2>2. orgs[o] = None /\ orgs'[o] # None /\ job[g].o = o => job[g].at \notin Creating
      BY <1>2, <2>1 DEF IInv, CreatorsAreApart
  <2>3. job[g].at \in Seating => job[g].o # o
      BY <1>2, <2>1 DEF IInv, MadeUnseen
  <2> QED
      BY <2>1, <2>2, <2>3
<1> QED
    BY <1>1, <1>2

(* An org that somebody knows has its owner seated.                         *)
LEMMA NoneMoves ==
  ASSUME IInv, job' = job, NEW o \in Org, ~Unknown(o), orgs' = orgs
  PROVE  Jobs(o) /\ ~Unseated(o)
BY DEF IInv, Jobs, MadeUnseen, KnownIsSeated

(* What a step writes about an org: nothing but names of it, or its         *)
(* document, by one who copied it or is alone in making it.                 *)
LEMMA SameDocuments ==
  ASSUME IInv, NEW o \in Org, ~Unseated(o), UNCHANGED <<orgs, members, drawn>>,
         \A n \in Org : joined[n] \subseteq joined'[n], linkers' = linkers
  PROVE  Documents(o)
BY DEF IInv, Documents, Unseated, OrgsAreLinked, LinkedDoc

(* An org overwritten by one with the same owner, whose customers linked    *)
(* themselves to it.                                                        *)
LEMMA Overwritten ==
  ASSUME IInv, NEW o \in Org, ~Unseated(o), UNCHANGED <<members, drawn, joined>>,
         \A n \in Org : linkers[n] \subseteq linkers'[n],
         NEW doc \in OrgDoc, orgs' = [orgs EXCEPT ![o] = doc],
         IF orgs[o] = None THEN doc.owner \in Payer ELSE doc.owner = orgs[o].owner,
         LinkedDoc(doc, o)'
  PROVE  Documents(o)
<1>1. orgs'[o] = doc /\ doc # None /\ \A n \in Org \ {o} : orgs'[n] = orgs[n]
    BY AccountsAssumption, Zenon DEF IInv, TypeOK
<1>2. LinkedDoc(orgs[o], o)'
    BY <1>1 DEF LinkedDoc
<1> QED
    BY <1>1, <1>2 DEF Documents, Unseated

(* mint_in_background adds a token for this user and org, or none.          *)
LEMMA SpawnMintAdds ==
  ASSUME NEW u \in User, NEW o \in Org, NEW plan \in Nat, NEW role \in Role,
         mints \in [Task -> Claim \cup {None}], SpawnMint(u, o, plan, role)
  PROVE  /\ mints' \in [Task -> Claim \cup {None}]
         /\ \A k \in Task : mints'[k] # None /\ mints'[k] # mints[k] =>
              mints'[k].uid = u /\ mints'[k].org = o
<1> DEFINE c == [uid |-> u, org |-> o, plan |-> plan, role |-> role]
<1>1. c \in Claim /\ c.uid = u /\ c.org = o
    BY DEF Claim
<1>2. \/ \E k \in Task : mints' = [mints EXCEPT ![k] = c]
      \/ mints' = mints
    BY DEF SpawnMint
<1> HIDE DEF c
<1> QED
    BY <1>1, <1>2

(* The personal org of a user is a document of its own.                     *)
LEMMA NewPersonalIsDoc ==
  ASSUME NEW u \in User
  PROVE  /\ NewPersonal(u) \in OrgDoc /\ NewPersonal(u) # None /\ NewPersonal(u).owner = u
         /\ NewPersonal(u).customer = None /\ NewPersonal(u).plan = 0
         /\ \A o : LinkedDoc(NewPersonal(u), o) /\ LinkedDoc(NewPersonal(u), o)'
<1>1. NewPersonal(u) \in OrgDoc
    BY DEF NewPersonal, OrgDoc
<1>2. NewPersonal(u) # None
    BY <1>1, AccountsAssumption, Zenon
<1> QED
    BY <1>1, <1>2 DEF NewPersonal, LinkedDoc

(* The steps that only begin a request.                                     *)
LEMMA BeginKeeps ==
  ASSUME IInv, NEW h \in Handler, NEW u \in User,
         \/ GetMe(h, u) \/ \E t \in Invite : AcceptInvite(h, u, t)
         \/ u \in Payer /\ Checkout(h, u)
         \/ u \in Payer /\ \E e \in 0 .. PastDue : StripeWebhook(h, u, e)
  PROVE  IInv'
<1>0. None \in Invite \cup {None} /\ 0 \in Nat
    OBVIOUS
<1>1. CASE GetMe(h, u)
  <2>1. "me" \in Unplaced /\ "me" \notin Paying /\ "me" # "accept"
      BY DEF Unplaced, Paying
  <2> QED
      BY <1>0, <1>1, <2>1, StartKeeps DEF GetMe
<1>2. CASE \E t \in Invite : AcceptInvite(h, u, t)
  <2> PICK t \in Invite : AcceptInvite(h, u, t)
      BY <1>2
  <2>1. "accept" \in Unplaced /\ "accept" \notin Paying /\ t \in Invite \cup {None}
      BY DEF Unplaced, Paying
  <2> QED
      BY <1>0, <2>1, StartKeeps DEF AcceptInvite
<1>3. CASE u \in Payer /\ Checkout(h, u)
  <2>1. "checkout" \in Unplaced
      BY DEF Unplaced
  <2> QED
      BY <1>0, <1>3, <2>1, StartKeeps DEF Checkout
<1>4. CASE u \in Payer /\ \E e \in 0 .. PastDue : StripeWebhook(h, u, e)
  <2> PICK e \in 0 .. PastDue : StripeWebhook(h, u, e)
      BY <1>4
  <2>1. e \in Nat /\ "link" \in Unplaced /\ "find" \in Unplaced
      BY AccountsAssumption DEF Unplaced, PastDue
  <2>2. CASE e = LinkRef
      BY <1>0, <1>4, <2>1, <2>2, StartKeeps DEF StripeWebhook
  <2>3. CASE e # LinkRef
      BY <1>0, <1>4, <2>1, <2>3, StartKeeps DEF StripeWebhook
  <2> QED
      BY <2>2, <2>3
<1> QED
    BY <1>1, <1>2, <1>3, <1>4

(* get_me: it draws an org, makes it, seats its owner and only then lets it *)
(* be known.                                                                *)
LEMMA MeReadKeeps ==
  ASSUME IInv, NEW h \in Handler, MeRead(h)
  PROVE  IInv'
<1>1. CASE Done(h) /\ UNCHANGED drawn
    BY <1>1, DoneKeeps DEF MeRead
<1>2. CASE \E o \in Org : Draw(o) /\ Goto(h, "meOrg", o, None)
  <2> PICK o \in Org : Draw(o) /\ Goto(h, "meOrg", o, None)
      BY <1>2
  <2> PICK x : x = After(job[h], "meOrg", o, None)
      OBVIOUS
  <2>1. job[h] \in Job /\ x \in Job /\ job' = [job EXCEPT ![h] = x]
    <3>1. TypeOK /\ job[h] # None /\ None \in OrgDoc \cup InviteDoc \cup {None}
          /\ "meOrg" \in Label /\ o \in Org \cup {None}
        BY DEF IInv, MeRead, At, Label, Seating
    <3> QED
        BY <3>1, GotoMoves
  <2>2. x.at = "meOrg" /\ x.o = o
      BY DEF After
  <2>3. orgs[o] = None /\ drawn' = drawn \cup {o} /\ orgs' = orgs
      BY DEF IInv, NamedIsDrawn, Draw, MeRead, store
  <2>4. MayRely(x)'
      BY <2>2, <2>3 DEF MayRely, Unplaced, Accepting, HasJoined, Overwriting, Paying
  <2>5. Fits(h, x)
      BY <2>2, NewFits DEF Draw
  <2>6. drawn \subseteq drawn' /\ drawn' \subseteq Org
      BY <2>3 DEF IInv, TypeOK
  <2> QED
      BY <2>1, <2>4, <2>5, <2>6, JobMoves DEF MeRead
<1> QED
    BY <1>1, <1>2 DEF MeRead

(* The org is written while only its maker can name it.                     *)
LEMMA MeOrgKeeps ==
  ASSUME IInv, NEW h \in Handler, MeOrg(h)
  PROVE  IInv'
<1> PICK x : x = After(job[h], "meMember", job[h].o, None)
    OBVIOUS
<1> PICK o, u : o = job[h].o /\ u = job[h].u
    OBVIOUS
<1>1. /\ job[h] # None /\ job[h] \in Job /\ job[h].at = "meOrg" /\ MayRely(job[h])
      /\ o \in drawn /\ o \in Org /\ u \in User
    BY DEF IInv, TypeOK, JobsRely, MeOrg, At, MayRely, Unplaced, Job
<1>2. x \in Job /\ job' = [job EXCEPT ![h] = x]
  <2>1. TypeOK /\ None \in OrgDoc \cup InviteDoc \cup {None} /\ job[h].o \in Org \cup {None}
          /\ "meMember" \in Label
      BY <1>1 DEF IInv, Label, Seating
  <2> QED
      BY <1>1, <2>1, GotoMoves DEF MeOrg
<1>3. x.at = "meMember" /\ x.o = o /\ x.u = u
    BY DEF After
<1>4. orgs' = [orgs EXCEPT ![o] = NewPersonal(u)]
    BY DEF MeOrg, PutOrg
<1>5. /\ NewPersonal(u) \in OrgDoc /\ NewPersonal(u) # None /\ NewPersonal(u).owner = u
      /\ NewPersonal(u).customer = None /\ NewPersonal(u).plan = 0
      /\ \A n : LinkedDoc(NewPersonal(u), n)'
    BY <1>1, NewPersonalIsDoc
<1>6. /\ Unknown(o) /\ orgs[o] = None
      /\ \A g \in Handler : g # h /\ job[g] # None => job[g].o # o
    BY <1>1 DEF IInv, MadeUnseen, Seating, MayRely
<1>7. UNCHANGED <<accounts, members, invites, claims, mints, drawn, history>>
    BY DEF MeOrg
<1> HIDE DEF After, NewPersonal
<1>8. TypeOK'
    BY <1>1, <1>2, <1>4, <1>5, <1>7 DEF IInv, TypeOK
<1>9. NamedIsDrawn'
    BY <1>1, <1>4, <1>5, <1>7 DEF IInv, TypeOK, NamedIsDrawn
<1>10. JobsRely'
  <2>1. ASSUME NEW g \in Handler, g # h, job[g] # None
        PROVE  MayRely(job[g])'
      BY <1>1, <1>2, <1>4, <1>5, <1>6, <1>7, <2>1 DEF IInv, TypeOK, JobsRely, MayRely, LinkedDoc
  <2>2. MayRely(x)'
      BY <1>1, <1>3, <1>4, <1>5, <1>7 DEF IInv, TypeOK, MayRely, Unplaced, Accepting, HasJoined, Overwriting, Paying
  <2> QED
      BY <1>2, <2>1, <2>2 DEF IInv, TypeOK, JobsRely
<1>11. CreatorsAreApart'
    BY <1>1, <1>2, <1>3, <1>4, <1>5, <1>6 DEF IInv, TypeOK, CreatorsAreApart, Creating
<1>12. MadeUnseen'
    BY <1>1, <1>2, <1>3, <1>6, <1>7 DEF IInv, TypeOK, MadeUnseen, Unknown
<1>13. KnownIsSeated'
    BY <1>1, <1>2, <1>3, <1>4, <1>5, <1>6, <1>7 DEF IInv, TypeOK, KnownIsSeated, Unseated, Unknown
<1>14. ClaimsAreEarned' /\ MembershipIsEarned'
    BY <1>1, <1>4, <1>5, <1>6, <1>7
       DEF IInv, TypeOK, Claim, ClaimsAreEarned, Earned, MembershipIsEarned
<1>15. OrgsAreLinked'
    BY <1>1, <1>4, <1>5, <1>7 DEF IInv, TypeOK, OrgsAreLinked, LinkedDoc
<1> QED
    BY <1>8, <1>9, <1>10, <1>11, <1>12, <1>13, <1>14, <1>15 DEF IInv

(* Its owner is seated before anybody can name it.                          *)
LEMMA MeMemberKeeps ==
  ASSUME IInv, NEW h \in Handler, MeMember(h)
  PROVE  IInv'
<1> PICK x : x = After(job[h], "meAccount", job[h].o, None)
    OBVIOUS
<1> PICK o, u : o = job[h].o /\ u = job[h].u
    OBVIOUS
<1>1. /\ job[h] # None /\ job[h].at = "meMember" /\ MayRely(job[h]) /\ job[h] \in Job
      /\ o \in drawn /\ o \in Org /\ u \in User
  <2>1. job[h] # None /\ job[h].at = "meMember" /\ job[h].at \notin Unplaced
      BY DEF MeMember, At, Unplaced
  <2> QED
      BY <2>1, JobStands
<1>2. x \in Job /\ job' = [job EXCEPT ![h] = x]
  <2>1. TypeOK /\ None \in OrgDoc \cup InviteDoc \cup {None} /\ job[h].o \in Org \cup {None}
        /\ "meAccount" \in Label
      BY <1>1 DEF IInv, Label, HasJoined
  <2> QED
      BY <1>1, <2>1, GotoMoves DEF MeMember
<1>3. x.at = "meAccount" /\ x.o = o /\ x.u = u
    BY DEF After
<1>4. /\ members' = [members EXCEPT ![o][u] = "admin"]
      /\ joined' = [joined EXCEPT ![o] = @ \cup {u}]
      /\ UNCHANGED <<accounts, orgs, invites, claims, mints, drawn, linkers>>
    BY DEF MeMember, PutMember
<1>5. orgs[o] # None /\ orgs[o].owner = u
    BY <1>1 DEF MayRely
<1>6. TypeOK'
    BY <1>1, <1>2, <1>4 DEF IInv, TypeOK, Role
<1>7. Documents(o)
    BY <1>1, <1>4, <1>5 DEF IInv, TypeOK, Documents, Unseated, OrgsAreLinked, LinkedDoc
<1>8. Names(o)
    BY <1>4 DEF Names
<1>9. MayRely(x)'
    BY <1>1, <1>3, <1>4, <1>5
       DEF MayRely, IInv, TypeOK, Unplaced, Accepting, HasJoined, Overwriting, Paying
<1>10. Jobs(o)
  <2>1. x.at \notin Seating /\ x.at \notin Creating
      BY <1>3 DEF Seating, Creating
  <2> QED
      BY <1>1, <1>2, <1>3, <1>4, <1>9, <2>1, MovesOn
<1> QED
    BY <1>1, <1>6, <1>7, <1>8, <1>10, WriteKeeps

(* Only now does an account, and then a token, name it.                     *)
LEMMA MeAccountKeeps ==
  ASSUME IInv, NEW h \in Handler, MeAccount(h)
  PROVE  IInv'
<1> PICK o, u : o = job[h].o /\ u = job[h].u
    OBVIOUS
<1>1. /\ job[h] # None /\ job[h].at = "meAccount" /\ MayRely(job[h])
      /\ o \in drawn /\ o \in Org /\ u \in User /\ ~Unseated(o)
  <2>1. job[h] # None /\ job[h].at = "meAccount" /\ job[h].at \notin Unplaced
      BY DEF MeAccount, At, Unplaced
  <2> QED
      BY <2>1, JobStands
<1>2. /\ accounts' = [accounts EXCEPT ![u] = o]
      /\ SpawnMint(u, o, 0, "admin")
      /\ job' = [job EXCEPT ![h] = None]
      /\ UNCHANGED <<orgs, members, invites, claims, drawn, history>>
    BY DEF MeAccount, PutAccount, Done
<1>3. mints \in [Task -> Claim \cup {None}] /\ 0 \in Nat /\ "admin" \in Role
    BY DEF IInv, TypeOK, Role
<1>4. /\ mints' \in [Task -> Claim \cup {None}]
      /\ \A k \in Task : mints'[k] # None /\ mints'[k] # mints[k] =>
           mints'[k].uid = u /\ mints'[k].org = o
    BY <1>1, <1>2, <1>3, SpawnMintAdds
<1>5. TypeOK'
    BY <1>1, <1>2, <1>4 DEF IInv, TypeOK
<1>6. Documents(o)
    BY <1>1, <1>2, SameDocuments
<1>7. orgs[o] # None /\ orgs[o].owner = u
    BY <1>1 DEF MayRely
<1>8. Names(o)
    BY <1>1, <1>2, <1>4, <1>7 DEF Names, Earned, IInv, TypeOK
<1>9. Jobs(o)
    BY <1>1, <1>2, MovesOn
<1> QED
    BY <1>1, <1>5, <1>6, <1>8, <1>9, WriteKeeps

(* Invites, made and used by those who know the org, and members taken out. *)
LEMMA InviteKeeps ==
  ASSUME IInv, NEW u \in User, NEW o \in Org, NEW t \in Invite, NEW role \in Role,
         CreateInvite(u, o, t, role)
  PROVE  IInv'
<1> DEFINE doc == [org |-> o, role |-> role, used |-> None]
<1>1. doc \in InviteDoc /\ doc.org = o /\ doc.used = None
    BY DEF InviteDoc
<1>2. /\ invites' = [invites EXCEPT ![t] = doc] /\ Knows(u, o) /\ orgs[o] # None
      /\ UNCHANGED <<accounts, orgs, members, claims, mints, drawn, job, history>>
    BY DEF CreateInvite, MayManage
<1> HIDE DEF doc
<1>3. ~Unknown(o) /\ o \in drawn
    BY <1>2 DEF Knows, Unknown, IInv, NamedIsDrawn
<1>4. Jobs(o) /\ ~Unseated(o)
    BY <1>2, <1>3, NoneMoves
<1>5. TypeOK'
    BY <1>1, <1>2 DEF IInv, TypeOK
<1>6. Documents(o)
    BY <1>2, <1>4, SameDocuments
<1>7. Names(o)
    BY <1>1, <1>2 DEF Names, IInv, TypeOK
<1> QED
    BY <1>3, <1>4, <1>5, <1>6, <1>7, WriteKeeps

(* The owner of an org cannot be removed from it.                           *)
LEMMA RemoveKeeps ==
  ASSUME IInv, NEW u \in User, NEW o \in Org, NEW v \in User, RemoveMember(u, o, v)
  PROVE  IInv'
<1>1. /\ members' = [members EXCEPT ![o][v] = None] /\ Knows(u, o) /\ orgs[o] # None
      /\ v # orgs[o].owner
      /\ UNCHANGED <<accounts, orgs, invites, claims, mints, drawn, job, history>>
    BY DEF RemoveMember, MayManage
<1>2. ~Unknown(o) /\ o \in drawn
    BY <1>1 DEF Knows, Unknown, IInv, NamedIsDrawn
<1>3. Jobs(o) /\ ~Unseated(o)
    BY <1>1, <1>2, NoneMoves
<1>4. TypeOK'
    BY <1>1 DEF IInv, TypeOK
<1>5. Documents(o)
    BY <1>1, <1>3 DEF Documents, Unseated, IInv, TypeOK, OrgDoc, OrgsAreLinked, LinkedDoc
<1>6. Names(o)
    BY <1>1 DEF Names
<1> QED
    BY <1>2, <1>3, <1>4, <1>5, <1>6, WriteKeeps

(* A mint task, however late, replaces the claims by earned ones.           *)
LEMMA MintKeeps ==
  ASSUME IInv, NEW k \in Task, Mint(k) \/ MintFails(k)
  PROVE  IInv'
<1> PICK o : o = mints[k].org
    OBVIOUS
<1>1. /\ mints[k] # None /\ mints' = [mints EXCEPT ![k] = None]
      /\ claims' = claims \/ claims' = [claims EXCEPT ![mints[k].uid] = mints[k]]
      /\ UNCHANGED <<accounts, orgs, members, invites, drawn, job, history>>
    BY DEF Mint, MintFails, store
<1>2. mints[k] \in Claim /\ mints[k].uid \in User /\ o \in Org /\ o \in drawn /\ ~Unknown(o)
    BY <1>1 DEF IInv, TypeOK, Claim, NamedIsDrawn, Unknown
<1>3. Jobs(o) /\ ~Unseated(o)
    BY <1>1, <1>2, NoneMoves
<1>4. TypeOK'
    BY <1>1, <1>2 DEF IInv, TypeOK
<1>5. Documents(o)
    BY <1>1, <1>2, <1>3, SameDocuments
<1>6. Earned(mints[k])
    BY <1>1 DEF IInv, ClaimsAreEarned
<1>7. Names(o)
  <2>1. \A u \in User : claims'[u] # claims[u] => claims'[u] = mints[k] /\ u = mints[k].uid
      BY <1>1, <1>2 DEF IInv, TypeOK
  <2>2. \A l \in Task : mints'[l] = None \/ mints'[l] = mints[l]
      BY <1>1 DEF IInv, TypeOK
  <2> QED
      BY <1>1, <1>6, <2>1, <2>2 DEF Names, Earned
<1> QED
    BY <1>2, <1>3, <1>4, <1>5, <1>7, WriteKeeps

(* What a job of accept_invite relies on after its first read.              *)
LEMMA AcceptingRelies ==
  ASSUME NEW x, x.at \in Accepting, x.o \in drawn', x.t \in Invite, x.doc \in InviteDoc, x.doc.org = x.o,
         orgs'[x.o] # None, x.at \in HasJoined => x.u \in joined'[x.o],
         x.at = "acceptJoin" => x.u \in Payer \/ orgs'[x.o].owner # x.u
  PROVE  MayRely(x)' /\ x.at \notin Seating /\ x.at \notin Creating /\ x.at \in Label
BY DEF MayRely, Unplaced, Accepting, HasJoined, Overwriting, Paying, Seating, Creating, Label

(* accept_invite.                                                           *)
LEMMA AcceptReadKeeps ==
  ASSUME IInv, NEW h \in Handler, AcceptRead(h)
  PROVE  IInv'
<1> PICK t, doc : t = job[h].t /\ doc = invites[t]
    OBVIOUS
<1>1. job[h] # None /\ job[h].at = "accept" /\ job[h] \in Job /\ MayRely(job[h]) /\ t \in Invite
    BY DEF IInv, TypeOK, JobsRely, MayRely, AcceptRead, At
<1>2. CASE Done(h)
    BY <1>2, DoneKeeps DEF AcceptRead
<1>3. CASE doc # None /\ Goto(h, "acceptCheck", doc.org, doc)
  <2> PICK x, o : x = After(job[h], "acceptCheck", o, doc) /\ o = doc.org
      OBVIOUS
  <2>1. doc \in InviteDoc /\ o \in Org /\ o \in drawn /\ orgs[o] # None
      BY <1>1, <1>3 DEF IInv, TypeOK, NamedIsDrawn, InviteDoc
  <2>2. x \in Job /\ job' = [job EXCEPT ![h] = x]
    <3>1. TypeOK /\ "acceptCheck" \in Label /\ o \in Org \cup {None} /\ doc \in OrgDoc \cup InviteDoc \cup {None}
        BY <2>1 DEF IInv, Label, Accepting
    <3> QED
        BY <1>1, <1>3, <3>1, GotoMoves
  <2>3. x.at = "acceptCheck" /\ x.o = o /\ x.u = job[h].u /\ x.t = t /\ x.doc = doc
      BY DEF After
  <2>4. UNCHANGED <<store, claims, mints, drawn, history>> /\ drawn \subseteq Org
      BY DEF AcceptRead, IInv, TypeOK
  <2>5. MayRely(x)' /\ x.at \notin Seating /\ x.at \notin Creating
    <3>1. x.at \in Accepting /\ x.at \notin HasJoined /\ x.at # "acceptJoin"
        BY <2>3 DEF Accepting, HasJoined
    <3>2. x.o \in drawn' /\ orgs'[x.o] # None
        BY <2>1, <2>3, <2>4 DEF store
    <3> QED
        BY <1>1, <2>1, <2>3, <3>1, <3>2, AcceptingRelies
  <2>6. Fits(h, x)
    <3>1. invites[t] # None /\ invites[t].org = x.o
        BY <1>3, <2>3
    <3>2. ~Unknown(x.o)
        BY <1>1, <3>1 DEF Unknown
    <3> QED
        BY <2>5, <3>2, KnownFits
  <2> QED
      BY <2>2, <2>4, <2>5, <2>6, JobMoves
<1> QED
    BY <1>2, <1>3 DEF AcceptRead

(* Who is not a member of an org that is seated is not its owner, unless    *)
(* the owner came by the checkout.                                          *)
LEMMA AcceptCheckKeeps ==
  ASSUME IInv, NEW h \in Handler, AcceptCheck(h)
  PROVE  IInv'
<1> PICK o, u, doc : o = job[h].o /\ u = job[h].u /\ doc = job[h].doc
    OBVIOUS
<1> PICK x : x = After(job[h], "acceptJoin", o, doc)
    OBVIOUS
<1>1. /\ job[h] # None /\ job[h].at = "acceptCheck" /\ job[h] \in Job /\ MayRely(job[h])
      /\ o \in drawn /\ o \in Org /\ ~Unseated(o)
  <2>1. job[h] # None /\ job[h].at = "acceptCheck" /\ job[h].at \notin Unplaced
      BY DEF AcceptCheck, At, Unplaced
  <2> QED
      BY <2>1, JobStands
<1>2. CASE Done(h)
    BY <1>2, DoneKeeps DEF AcceptCheck
<1>3. CASE members[o][u] = None /\ Goto(h, "acceptJoin", o, doc)
  <2>1. x \in Job /\ job' = [job EXCEPT ![h] = x]
    <3>1. TypeOK /\ "acceptJoin" \in Label /\ o \in Org \cup {None} /\ doc \in OrgDoc \cup InviteDoc \cup {None}
        BY <1>1 DEF IInv, Label, Accepting, MayRely
    <3> QED
        BY <1>1, <1>3, <3>1, GotoMoves
  <2>2. x.at = "acceptJoin" /\ x.o = o /\ x.u = u /\ x.t = job[h].t /\ x.doc = doc
      BY DEF After
  <2>3. UNCHANGED <<store, claims, mints, drawn, history>> /\ drawn \subseteq Org
      BY DEF AcceptCheck, IInv, TypeOK
  <2>4. u \in Payer \/ orgs[o].owner # u
    <3>1. orgs[o] # None
        BY <1>1 DEF MayRely, Accepting
    <3>2. None # "admin"
        BY AccountsAssumption DEF Role
    <3> QED
        BY <1>1, <1>3, <3>1, <3>2 DEF Unseated
  <2>5. MayRely(x)'
      BY <1>1, <2>2, <2>3, <2>4
         DEF MayRely, store, Unplaced, Accepting, HasJoined, Overwriting, Paying
  <2>6. Fits(h, x)
    <3>1. x.at \notin Seating /\ x.at \notin Creating /\ job[h].at \notin Seating
        BY <1>1, <2>2 DEF Seating, Creating
    <3> QED
        BY <1>1, <2>2, <3>1, StaysFit
  <2> QED
      BY <2>1, <2>3, <2>5, <2>6, JobMoves
<1> QED
    BY <1>2, <1>3 DEF AcceptCheck

(* What a job of accept_invite can use of that.                             *)
LEMMA AcceptingStands ==
  ASSUME IInv, NEW h \in Handler, job[h] # None, job[h].at \in Accepting
  PROVE  /\ job[h].u \in User /\ job[h].o \in drawn /\ job[h].o \in Org /\ job[h].t \in Invite
         /\ job[h].doc \in InviteDoc /\ job[h].doc.org = job[h].o
         /\ orgs[job[h].o] # None /\ ~Unseated(job[h].o)
         /\ job[h].at \in HasJoined => job[h].u \in joined[job[h].o]
         /\ job[h].at = "acceptJoin" => job[h].u \in Payer \/ orgs[job[h].o].owner # job[h].u
<1>1. job[h].at \notin Unplaced /\ job[h].at # "meMember"
    BY DEF Accepting, Unplaced
<1>2. /\ MayRely(job[h]) /\ job[h].u \in User /\ job[h].o \in drawn /\ job[h].o \in Org
      /\ ~Unseated(job[h].o)
    BY <1>1, JobStands
<1> QED
    BY <1>2 DEF MayRely

(* Its next await keeps the org and the copy of the invite.                 *)
LEMMA AcceptingMoves ==
  ASSUME IInv, NEW h \in Handler, job[h] # None, job[h].at \in Accepting, NEW label \in Accepting,
         Goto(h, label, job[h].o, job[h].doc)
  PROVE  \E x \in Job : /\ job' = [job EXCEPT ![h] = x]
                        /\ x.at = label /\ x.u = job[h].u /\ x.o = job[h].o
                        /\ x.t = job[h].t /\ x.doc = job[h].doc
<1> PICK x : x = After(job[h], label, job[h].o, job[h].doc)
    OBVIOUS
<1>1. /\ TypeOK /\ label \in Label /\ job[h].o \in Org \cup {None}
      /\ job[h].doc \in OrgDoc \cup InviteDoc \cup {None}
    BY AcceptingStands DEF IInv, Label
<1>2. x \in Job /\ job' = [job EXCEPT ![h] = x]
    BY <1>1, GotoMoves
<1>3. x.at = label /\ x.u = job[h].u /\ x.o = job[h].o /\ x.t = job[h].t /\ x.doc = job[h].doc
    BY DEF After
<1> QED
    BY <1>2, <1>3

(* The user joins: the owner of a seated org is never demoted.              *)
LEMMA AcceptJoinKeeps ==
  ASSUME IInv, NEW h \in Handler, AcceptJoin(h)
  PROVE  IInv'
<1> PICK o, u, doc, t : o = job[h].o /\ u = job[h].u /\ doc = job[h].doc /\ t = job[h].t
    OBVIOUS
<1>1. job[h] # None /\ job[h].at \in Accepting /\ job[h].at = "acceptJoin" /\ "acceptMark" \in Accepting
    BY DEF AcceptJoin, At, Accepting
<1>2. /\ u \in User /\ o \in drawn /\ o \in Org /\ t \in Invite /\ doc \in InviteDoc /\ doc.org = o
      /\ orgs[o] # None /\ ~Unseated(o)
      /\ u \in Payer \/ orgs[o].owner # u
    BY <1>1, AcceptingStands
<1>3. PICK x \in Job : /\ job' = [job EXCEPT ![h] = x]
                       /\ x.at = "acceptMark" /\ x.u = u /\ x.o = o /\ x.t = t /\ x.doc = doc
    BY <1>1, AcceptingMoves DEF AcceptJoin
<1>4. /\ members' = [members EXCEPT ![o][u] = doc.role]
      /\ joined' = [joined EXCEPT ![o] = @ \cup {u}]
      /\ UNCHANGED <<accounts, orgs, invites, claims, mints, drawn, linkers>>
    BY DEF AcceptJoin, PutMember
<1>5. TypeOK'
    BY <1>2, <1>3, <1>4 DEF IInv, TypeOK, InviteDoc
<1>6. Documents(o)
    BY <1>2, <1>4 DEF IInv, TypeOK, Documents, Unseated, OrgsAreLinked, LinkedDoc
<1>7. Names(o)
    BY <1>4 DEF Names
<1>8. Jobs(o)
  <2>1. x.o \in drawn' /\ orgs'[x.o] # None /\ x.u \in joined'[x.o]
      BY <1>2, <1>3, <1>4 DEF IInv, TypeOK
  <2>2. x.at \in Accepting /\ x.at # "acceptJoin" /\ job[h].at # "meOrg"
      BY <1>1, <1>3 DEF Accepting
  <2>3. MayRely(x)' /\ x.at \notin Seating /\ x.at \notin Creating
      BY <1>2, <1>3, <2>1, <2>2, AcceptingRelies
  <2> QED
      BY <1>1, <1>2, <1>3, <2>2, <2>3, MovesOn
<1> QED
    BY <1>2, <1>5, <1>6, <1>7, <1>8, WriteKeeps

(* The invite is marked after its user joined.                              *)
LEMMA AcceptMarkKeeps ==
  ASSUME IInv, NEW h \in Handler, AcceptMark(h)
  PROVE  IInv'
<1> PICK o, u, doc, t : o = job[h].o /\ u = job[h].u /\ doc = job[h].doc /\ t = job[h].t
    OBVIOUS
<1> PICK used : used = [doc EXCEPT !.used = u]
    OBVIOUS
<1>1. /\ job[h] # None /\ job[h].at \in Accepting /\ job[h].at \in HasJoined
      /\ job[h].at = "acceptMark" /\ "acceptAccount" \in Accepting
    BY DEF AcceptMark, At, Accepting, HasJoined
<1>2. /\ u \in User /\ o \in drawn /\ o \in Org /\ t \in Invite /\ doc \in InviteDoc /\ doc.org = o
      /\ orgs[o] # None /\ ~Unseated(o) /\ u \in joined[o]
    BY <1>1, AcceptingStands
<1>3. PICK x \in Job : /\ job' = [job EXCEPT ![h] = x]
                       /\ x.at = "acceptAccount" /\ x.u = u /\ x.o = o /\ x.t = t /\ x.doc = doc
    BY <1>1, AcceptingMoves DEF AcceptMark
<1>4. /\ invites' = [invites EXCEPT ![t] = used]
      /\ UNCHANGED <<accounts, orgs, members, claims, mints, drawn, history>>
    BY DEF AcceptMark
<1>5. used \in InviteDoc /\ used.org = o /\ used.used = u
    BY <1>2 DEF InviteDoc
<1>6. TypeOK'
    BY <1>2, <1>3, <1>4, <1>5 DEF IInv, TypeOK
<1>7. Documents(o)
    BY <1>2, <1>4, SameDocuments
<1>8. Names(o)
    BY <1>2, <1>4, <1>5 DEF Names, IInv, TypeOK
<1>9. Jobs(o)
  <2>1. x.o \in drawn' /\ orgs'[x.o] # None /\ x.u \in joined'[x.o]
      BY <1>2, <1>3, <1>4
  <2>2. x.at \in Accepting /\ x.at # "acceptJoin" /\ job[h].at # "meOrg"
      BY <1>1, <1>3 DEF Accepting
  <2>3. MayRely(x)' /\ x.at \notin Seating /\ x.at \notin Creating
      BY <1>2, <1>3, <2>1, <2>2, AcceptingRelies
  <2> QED
      BY <1>1, <1>2, <1>3, <2>2, <2>3, MovesOn
<1> QED
    BY <1>2, <1>6, <1>7, <1>8, <1>9, WriteKeeps

(* Whether the account points anywhere is read first, and                   *)
LEMMA AcceptAccountKeeps ==
  ASSUME IInv, NEW h \in Handler, AcceptAccount(h)
  PROVE  IInv'
<1> PICK o, u, doc, t : o = job[h].o /\ u = job[h].u /\ doc = job[h].doc /\ t = job[h].t
    OBVIOUS
<1> PICK label : label = IF accounts[u] = None THEN "acceptPoint" ELSE "acceptApps"
    OBVIOUS
<1>1. /\ job[h] # None /\ job[h].at \in Accepting /\ job[h].at \in HasJoined
      /\ job[h].at = "acceptAccount" /\ label \in Accepting /\ label # "acceptJoin"
    BY DEF AcceptAccount, At, Accepting, HasJoined
<1>2. /\ u \in User /\ o \in drawn /\ o \in Org /\ t \in Invite /\ doc \in InviteDoc /\ doc.org = o
      /\ orgs[o] # None /\ ~Unseated(o) /\ u \in joined[o]
    BY <1>1, AcceptingStands
<1>3. PICK x \in Job : /\ job' = [job EXCEPT ![h] = x]
                       /\ x.at = label /\ x.u = u /\ x.o = o /\ x.t = t /\ x.doc = doc
    BY <1>1, AcceptingMoves DEF AcceptAccount
<1>4. /\ UNCHANGED <<store, claims, mints, history>> /\ drawn' = drawn
      /\ drawn \subseteq drawn' /\ drawn' \subseteq Org
    BY DEF AcceptAccount, IInv, TypeOK
<1>5. x.o \in drawn' /\ orgs'[x.o] # None /\ x.u \in joined'[x.o]
    BY <1>2, <1>3, <1>4 DEF store
<1>6. MayRely(x)' /\ x.at \notin Seating /\ x.at \notin Creating
    BY <1>1, <1>2, <1>3, <1>5, AcceptingRelies
<1>7. Fits(h, x)
  <2>1. job[h].at \notin Seating
      BY <1>1 DEF Seating
  <2> QED
      BY <1>1, <1>3, <1>6, <2>1, StaysFit
<1> QED
    BY <1>3, <1>4, <1>6, <1>7, JobMoves

(* set here: the org is one whose owner is seated.                          *)
LEMMA AcceptPointKeeps ==
  ASSUME IInv, NEW h \in Handler, AcceptPoint(h)
  PROVE  IInv'
<1> PICK o, u, doc, t : o = job[h].o /\ u = job[h].u /\ doc = job[h].doc /\ t = job[h].t
    OBVIOUS
<1>1. /\ job[h] # None /\ job[h].at \in Accepting /\ job[h].at \in HasJoined
      /\ job[h].at = "acceptPoint" /\ "acceptApps" \in Accepting
    BY DEF AcceptPoint, At, Accepting, HasJoined
<1>2. /\ u \in User /\ o \in drawn /\ o \in Org /\ t \in Invite /\ doc \in InviteDoc /\ doc.org = o
      /\ orgs[o] # None /\ ~Unseated(o) /\ u \in joined[o]
    BY <1>1, AcceptingStands
<1>3. PICK x \in Job : /\ job' = [job EXCEPT ![h] = x]
                       /\ x.at = "acceptApps" /\ x.u = u /\ x.o = o /\ x.t = t /\ x.doc = doc
    BY <1>1, AcceptingMoves DEF AcceptPoint
<1>4. /\ accounts' = [accounts EXCEPT ![u] = o]
      /\ UNCHANGED <<orgs, members, invites, claims, mints, drawn, history>>
    BY DEF AcceptPoint, PutAccount
<1>5. TypeOK'
    BY <1>2, <1>3, <1>4 DEF IInv, TypeOK
<1>6. Documents(o)
    BY <1>2, <1>4, SameDocuments
<1>7. Names(o)
    BY <1>2, <1>4 DEF Names, IInv, TypeOK
<1>8. Jobs(o)
  <2>1. x.o \in drawn' /\ orgs'[x.o] # None /\ x.u \in joined'[x.o]
      BY <1>2, <1>3, <1>4
  <2>2. x.at \in Accepting /\ x.at # "acceptJoin" /\ job[h].at # "meOrg"
      BY <1>1, <1>3 DEF Accepting
  <2>3. MayRely(x)' /\ x.at \notin Seating /\ x.at \notin Creating
      BY <1>2, <1>3, <2>1, <2>2, AcceptingRelies
  <2> QED
      BY <1>1, <1>2, <1>3, <2>2, <2>3, MovesOn
<1> QED
    BY <1>2, <1>5, <1>6, <1>7, <1>8, WriteKeeps

(* The token is minted for a user who has joined.                           *)
LEMMA AcceptAppsKeeps ==
  ASSUME IInv, NEW h \in Handler, AcceptApps(h)
  PROVE  IInv'
<1> PICK o, u, doc : o = job[h].o /\ u = job[h].u /\ doc = job[h].doc
    OBVIOUS
<1> PICK plan : plan = IF orgs[o] = None THEN 0 ELSE orgs[o].plan
    OBVIOUS
<1>1. /\ job[h] # None /\ job[h].at \in Accepting /\ job[h].at \in HasJoined
      /\ job[h].at = "acceptApps" /\ job[h].at # "meOrg"
    BY DEF AcceptApps, At, Accepting, HasJoined
<1>2. /\ u \in User /\ o \in drawn /\ o \in Org /\ doc \in InviteDoc /\ doc.org = o
      /\ orgs[o] # None /\ ~Unseated(o) /\ u \in joined[o]
    BY <1>1, AcceptingStands
<1>3. /\ SpawnMint(u, o, plan, doc.role) /\ job' = [job EXCEPT ![h] = None]
      /\ UNCHANGED <<accounts, orgs, members, invites, claims, drawn, history>>
    BY DEF AcceptApps, Done, store
<1>4. mints \in [Task -> Claim \cup {None}] /\ plan \in Nat /\ doc.role \in Role
    BY <1>2 DEF IInv, TypeOK, OrgDoc, InviteDoc
<1>5. /\ mints' \in [Task -> Claim \cup {None}]
      /\ \A k \in Task : mints'[k] # None /\ mints'[k] # mints[k] =>
           mints'[k].uid = u /\ mints'[k].org = o
    BY <1>2, <1>3, <1>4, SpawnMintAdds
<1>6. TypeOK'
    BY <1>3, <1>5 DEF IInv, TypeOK
<1>7. Documents(o)
    BY <1>2, <1>3, SameDocuments
<1>8. Names(o)
    BY <1>2, <1>3, <1>5 DEF Names, Earned
<1>9. Jobs(o)
    BY <1>1, <1>2, <1>3, MovesOn
<1> QED
    BY <1>2, <1>6, <1>7, <1>8, <1>9, WriteKeeps

(* Checkout and the webhooks: a copy of an org is overwritten with the same *)
(* owner and a customer, whatever became of the org meanwhile.              *)
LEMMA PayingStands ==
  ASSUME IInv, NEW h \in Handler, job[h] # None, job[h].at \in Paying
  PROVE  /\ job[h] \in Job /\ job[h].u \in User /\ job[h].u \in Payer /\ job[h].u # None
         /\ job[h].at \notin Unplaced => job[h].o \in drawn /\ job[h].o \in Org /\ ~Unseated(job[h].o)
         /\ job[h].at \in Overwriting =>
              /\ job[h].doc \in OrgDoc /\ LinkedDoc(job[h].doc, job[h].o)
              /\ IF orgs[job[h].o] = None
                   THEN job[h].at \in Creating /\ job[h].doc.owner \in Payer
                   ELSE job[h].doc.owner = orgs[job[h].o].owner
         /\ job[h].at = "linkAccount" => orgs[job[h].o] = None
         /\ job[h].at = "apply" => job[h].doc.customer = job[h].u
<1>1. job[h] \in Job /\ MayRely(job[h]) /\ job[h].at # "meMember"
    BY DEF IInv, TypeOK, JobsRely, Paying
<1>2. job[h].u \in User /\ job[h].u # None
    BY <1>1, AccountsAssumption DEF Job
<1> QED
    BY <1>1, <1>2, JobStands DEF MayRely

(* Its next await keeps the user and the event.                             *)
LEMMA PayingMoves ==
  ASSUME IInv, NEW h \in Handler, job[h] # None, job[h].at \in Paying, NEW label \in Paying \ Unplaced,
         NEW o \in Org, NEW doc \in OrgDoc \cup {None}, Goto(h, label, o, doc)
  PROVE  \E x \in Job : /\ job' = [job EXCEPT ![h] = x]
                        /\ x.at = label /\ x.u = job[h].u /\ x.o = o
                        /\ x.doc = doc /\ x.p = job[h].p
<1> PICK x : x = After(job[h], label, o, doc)
    OBVIOUS
<1>1. /\ TypeOK /\ label \in Label /\ o \in Org \cup {None}
      /\ doc \in OrgDoc \cup InviteDoc \cup {None}
    BY DEF IInv, Label
<1>2. x \in Job /\ job' = [job EXCEPT ![h] = x]
    BY <1>1, GotoMoves
<1>3. x.at = label /\ x.u = job[h].u /\ x.o = o /\ x.doc = doc /\ x.p = job[h].p
    BY DEF After
<1> QED
    BY <1>2, <1>3

(* What such a job relies on at its next await.                             *)
LEMMA PayingRelies ==
  ASSUME NEW x, x.at \in Paying \ Unplaced, x.u \in Payer, x.o \in drawn',
         x.at = "linkAccount" => orgs'[x.o] = None,
         x.at \in Overwriting => /\ x.doc \in OrgDoc /\ LinkedDoc(x.doc, x.o)'
                                /\ IF orgs'[x.o] = None
                                     THEN x.at \in Creating /\ x.doc.owner \in Payer
                                     ELSE x.doc.owner = orgs'[x.o].owner,
         x.at = "apply" => x.doc.customer = x.u
  PROVE  MayRely(x)' /\ x.at \notin Seating
BY DEF MayRely, Unplaced, Accepting, HasJoined, Paying, Seating

(* The org of the account, which is seated.                                 *)
LEMMA CheckoutAccountKeeps ==
  ASSUME IInv, NEW h \in Handler, CheckoutAccount(h)
  PROVE  IInv'
<1> PICK o, u : o = accounts[u] /\ u = job[h].u
    OBVIOUS
<1>1. /\ job[h] # None /\ job[h].at \in Paying
      /\ "checkoutOrg" \in Paying \ Unplaced /\ "checkoutOrg" \notin Creating
      /\ "checkoutOrg" \notin Overwriting /\ "checkoutOrg" # "linkAccount" /\ "checkoutOrg" # "apply"
    BY DEF CheckoutAccount, At, Paying, Unplaced, Creating, Overwriting
<1>2. u \in User /\ u \in Payer
    BY <1>1, PayingStands
<1>3. CASE Done(h)
    BY <1>3, DoneKeeps DEF CheckoutAccount
<1>4. CASE o # None /\ Goto(h, "checkoutOrg", o, None)
  <2>1. o \in drawn /\ o \in Org /\ ~Unknown(o)
      BY <1>2, <1>4 DEF IInv, TypeOK, NamedIsDrawn, Unknown
  <2>2. PICK x \in Job : job' = [job EXCEPT ![h] = x] /\ x.at = "checkoutOrg" /\ x.u = u /\ x.o = o
      BY <1>1, <1>4, <2>1, PayingMoves
  <2>3. /\ UNCHANGED <<store, claims, mints, history>> /\ drawn' = drawn
        /\ drawn \subseteq drawn' /\ drawn' \subseteq Org
      BY DEF CheckoutAccount, IInv, TypeOK
  <2>4. MayRely(x)' /\ x.at \notin Seating
      BY <1>1, <1>2, <2>1, <2>2, <2>3, PayingRelies
  <2>5. Fits(h, x)
      BY <1>1, <2>1, <2>2, <2>4, KnownFits
  <2> QED
      BY <2>2, <2>3, <2>4, <2>5, JobMoves
<1> QED
    BY <1>3, <1>4 DEF CheckoutAccount

(* The copy that checkoutLink overwrites the org with.                      *)
LEMMA CheckoutReadKeeps ==
  ASSUME IInv, NEW h \in Handler, CheckoutRead(h)
  PROVE  IInv'
<1> PICK o, u, doc : o = job[h].o /\ u = job[h].u /\ doc = orgs[o]
    OBVIOUS
<1>1. /\ job[h] # None /\ job[h].at \in Paying /\ job[h].at \notin Unplaced /\ job[h].at \notin Seating
      /\ "checkoutLink" \in Paying \ Unplaced /\ "checkoutLink" \notin Creating
      /\ "checkoutLink" # "linkAccount" /\ "checkoutLink" # "apply"
    BY DEF CheckoutRead, At, Paying, Unplaced, Creating, Seating
<1>2. u \in Payer /\ o \in drawn /\ o \in Org
    BY <1>1, PayingStands
<1>3. /\ UNCHANGED <<store, claims, mints, history>> /\ drawn' = drawn /\ orgs' = orgs
      /\ drawn \subseteq drawn' /\ drawn' \subseteq Org
    BY DEF CheckoutRead, IInv, TypeOK, store
<1>4. CASE Done(h)
    BY <1>3, <1>4, DoneKeeps
<1>5. CASE doc # None /\ Goto(h, "checkoutLink", o, doc)
  <2>1. doc \in OrgDoc /\ doc \in OrgDoc \cup {None} /\ LinkedDoc(doc, o) /\ LinkedDoc(doc, o)'
      BY <1>2, <1>3, <1>5 DEF IInv, TypeOK, OrgsAreLinked, LinkedDoc
  <2>2. PICK x \in Job : /\ job' = [job EXCEPT ![h] = x] /\ x.at = "checkoutLink" /\ x.u = u /\ x.o = o
                         /\ x.doc = doc
      BY <1>1, <1>2, <1>5, <2>1, PayingMoves
  <2>3. MayRely(x)' /\ x.at \notin Seating
    <3>1. LinkedDoc(x.doc, x.o)'
        BY <2>1, <2>2 DEF LinkedDoc
    <3> QED
        BY <1>1, <1>2, <1>3, <1>5, <2>1, <2>2, <3>1, PayingRelies
  <2>4. Fits(h, x)
      BY <1>1, <2>2, <2>3, StaysFit
  <2> QED
      BY <1>3, <2>2, <2>3, <2>4, JobMoves
<1> QED
    BY <1>4, <1>5 DEF CheckoutRead

(* Overwriting an org by a copy, and minting a token for its owner.         *)
LEMMA OverwriteKeeps ==
  ASSUME IInv, NEW h \in Handler, job[h] # None, job[h].at \in Overwriting, job[h].at \in Paying,
         NEW o, o = job[h].o, NEW doc \in OrgDoc, doc.owner = job[h].doc.owner,
         LinkedDoc(doc, o)', linkers' \in [Org -> SUBSET Payer],
         \A n \in Org : linkers[n] \subseteq linkers'[n],
         PutOrg(o, doc), Done(h), UNCHANGED <<accounts, members, invites, claims, drawn, joined>>,
         UNCHANGED mints \/ SpawnMint(doc.owner, o, doc.plan, "admin")
  PROVE  IInv'
<1>1. job[h].at \notin Unplaced /\ job[h].at # "meOrg"
    BY DEF Overwriting, Unplaced
<1>2. /\ o \in drawn /\ o \in Org /\ ~Unseated(o)
      /\ IF orgs[o] = None THEN job[h].at \in Creating /\ doc.owner \in Payer
                           ELSE doc.owner = orgs[o].owner
    BY <1>1, PayingStands
<1>3. orgs' = [orgs EXCEPT ![o] = doc] /\ job' = [job EXCEPT ![h] = None]
    BY DEF PutOrg, Done
<1>4. doc.owner \in User /\ doc.plan \in Nat /\ "admin" \in Role /\ mints \in [Task -> Claim \cup {None}]
    BY DEF OrgDoc, Role, IInv, TypeOK
<1>5. /\ mints' \in [Task -> Claim \cup {None}]
      /\ \A k \in Task : mints'[k] # None /\ mints'[k] # mints[k] =>
           mints'[k].uid = doc.owner /\ mints'[k].org = o
    BY <1>2, <1>4, SpawnMintAdds
<1>6. TypeOK'
    BY <1>2, <1>3, <1>5 DEF IInv, TypeOK
<1>7. Documents(o)
    BY <1>2, <1>3, Overwritten
<1>8. orgs'[o] # None /\ orgs'[o].owner = doc.owner
  <2>1. orgs'[o] = doc /\ doc # None
      BY <1>2, <1>3, AccountsAssumption, Zenon DEF IInv, TypeOK
  <2> QED
      BY <2>1
<1>9. Names(o)
    BY <1>5, <1>8 DEF Names, Earned
<1>10. Jobs(o)
    BY <1>1, <1>2, <1>3, MovesOn
<1> QED
    BY <1>2, <1>6, <1>7, <1>9, <1>10, WriteKeeps

(* The copy that links the caller names nobody else anew.                   *)
LEMMA LinkLinks ==
  ASSUME IInv, NEW h \in Handler, job[h] # None, job[h].at \in Paying, job[h].at \in Overwriting,
         NEW o, o = job[h].o, Link(h), NEW doc, doc = [job[h].doc EXCEPT !.customer = job[h].u]
  PROVE  /\ doc \in OrgDoc /\ doc.owner = job[h].doc.owner /\ LinkedDoc(doc, o)'
         /\ linkers' \in [Org -> SUBSET Payer] /\ \A n \in Org : linkers[n] \subseteq linkers'[n]
<1> PICK u, copy : u = job[h].u /\ copy = job[h].doc
    OBVIOUS
<1>1. /\ u \in User /\ u \in Payer /\ u # None /\ copy \in OrgDoc /\ o \in Org
      /\ LinkedDoc(copy, o)
  <2>1. job[h].at \notin Unplaced
      BY DEF Overwriting, Unplaced
  <2> QED
      BY <2>1, PayingStands
<1>2. linkers \in [Org -> SUBSET Payer] /\ linkers' = [linkers EXCEPT ![o] = @ \cup {u}]
    BY DEF Link, IInv, TypeOK
<1>3. /\ linkers' \in [Org -> SUBSET Payer] /\ \A n \in Org : linkers[n] \subseteq linkers'[n]
      /\ u \in linkers'[o] /\ linkers[o] \subseteq linkers'[o]
    BY <1>1, <1>2
<1>4. /\ doc \in OrgDoc /\ doc.owner = copy.owner /\ doc.customer = u
      /\ doc.plan = copy.plan /\ doc.sub = copy.sub
    BY <1>1 DEF OrgDoc
<1>5. LinkedDoc(doc, o)'
    BY <1>1, <1>3, <1>4 DEF LinkedDoc
<1> QED
    BY <1>3, <1>4, <1>5

(* The customer is linked, or the error ignored.                            *)
LEMMA CheckoutLinkKeeps ==
  ASSUME IInv, NEW h \in Handler, CheckoutLink(h)
  PROVE  IInv'
<1> PICK o, doc : o = job[h].o /\ doc = [job[h].doc EXCEPT !.customer = job[h].u]
    OBVIOUS
<1>1. job[h] # None /\ job[h].at \in Paying /\ job[h].at \in Overwriting
    BY DEF CheckoutLink, At, Paying, Overwriting
<1>2. CASE UNCHANGED <<orgs, linkers>>
    BY <1>2, DoneKeeps DEF CheckoutLink, store
<1>3. CASE Link(h)
  <2>1. doc \in OrgDoc /\ doc.owner = job[h].doc.owner /\ LinkedDoc(doc, o)'
        /\ linkers' \in [Org -> SUBSET Payer] /\ \A n \in Org : linkers[n] \subseteq linkers'[n]
      BY <1>1, <1>3, LinkLinks
  <2> QED
      BY <1>1, <1>3, <2>1, OverwriteKeeps DEF CheckoutLink, Link
<1> QED
    BY <1>2, <1>3 DEF CheckoutLink

(* The webhook links the customer to the org, or makes it with him.         *)
LEMMA LinkPutKeeps ==
  ASSUME IInv, NEW h \in Handler, LinkPut(h)
  PROVE  IInv'
<1> PICK o, doc : o = job[h].o /\ doc = [job[h].doc EXCEPT !.customer = job[h].u]
    OBVIOUS
<1>1. job[h] # None /\ job[h].at \in Paying /\ job[h].at \in Overwriting
    BY DEF LinkPut, At, Paying, Overwriting
<1>2. doc \in OrgDoc /\ doc.owner = job[h].doc.owner /\ LinkedDoc(doc, o)'
      /\ linkers' \in [Org -> SUBSET Payer] /\ \A n \in Org : linkers[n] \subseteq linkers'[n]
    BY <1>1, LinkLinks DEF LinkPut
<1> QED
    BY <1>1, <1>2, OverwriteKeeps DEF LinkPut, Link

(* The org was found by its customer, so the copy has one.                  *)
LEMMA ApplyKeeps ==
  ASSUME IInv, NEW h \in Handler, ApplyProjection(h) \/ ApplyStatus(h)
  PROVE  IInv'
<1>1. job[h] # None /\ job[h].at \in Paying /\ job[h].at \in Overwriting /\ job[h].at = "apply"
    BY DEF ApplyProjection, ApplyStatus, At, Paying, Overwriting
<1>2. /\ job[h].u # None /\ job[h].u \in User /\ job[h].doc \in OrgDoc
      /\ job[h].doc.customer = job[h].u /\ LinkedDoc(job[h].doc, job[h].o)
      /\ job[h] \in Job /\ job[h].p \in Nat
    BY <1>1, PayingStands DEF Job
<1> PICK o : o = job[h].o
    OBVIOUS
<1>3. /\ linkers' = linkers /\ linkers' \in [Org -> SUBSET Payer]
      /\ \A n \in Org : linkers[n] \subseteq linkers'[n]
    BY DEF ApplyProjection, ApplyStatus, IInv, TypeOK
<1>4. CASE ApplyProjection(h)
  <2> PICK doc : doc = [job[h].doc EXCEPT !.plan = job[h].p, !.sub = job[h].u, !.late = FALSE]
      OBVIOUS
  <2>1. doc \in OrgDoc /\ doc.owner = job[h].doc.owner
        /\ doc.customer = job[h].u /\ doc.sub = job[h].u
      BY <1>2 DEF OrgDoc
  <2>2. LinkedDoc(doc, o)'
      BY <1>2, <1>3, <2>1 DEF LinkedDoc
  <2> QED
      BY <1>1, <1>3, <1>4, <2>1, <2>2, OverwriteKeeps DEF ApplyProjection
<1>5. CASE ApplyStatus(h)
  <2> PICK doc : doc = [job[h].doc EXCEPT !.late = TRUE]
      OBVIOUS
  <2>1. doc \in OrgDoc /\ doc.owner = job[h].doc.owner
        /\ doc.customer = job[h].doc.customer /\ doc.plan = job[h].doc.plan /\ doc.sub = job[h].doc.sub
      BY <1>2 DEF OrgDoc
  <2>2. LinkedDoc(doc, o)'
      BY <1>2, <1>3, <2>1 DEF LinkedDoc
  <2> QED
      BY <1>1, <1>3, <1>5, <2>1, <2>2, OverwriteKeeps DEF ApplyStatus
<1> QED
    BY <1>4, <1>5

(* An org found by its customer is seated, for it has one.                  *)
LEMMA FindOrgKeeps ==
  ASSUME IInv, NEW h \in Handler, FindOrg(h)
  PROVE  IInv'
<1> PICK u : u = job[h].u
    OBVIOUS
<1>1. /\ job[h] # None /\ job[h].at \in Paying
      /\ "apply" \in Paying \ Unplaced /\ "apply" \notin Creating /\ "apply" # "linkAccount"
    BY DEF FindOrg, At, Paying, Unplaced, Creating
<1>2. u \in Payer /\ u # None
    BY <1>1, PayingStands
<1>3. /\ UNCHANGED <<store, claims, mints, history>> /\ drawn' = drawn /\ orgs' = orgs
      /\ drawn \subseteq drawn' /\ drawn' \subseteq Org
    BY DEF FindOrg, IInv, TypeOK, store
<1>4. CASE Done(h)
    BY <1>3, <1>4, DoneKeeps
<1>5. CASE \E o \in Org : orgs[o] # None /\ orgs[o].customer = u /\ Goto(h, "apply", o, orgs[o])
  <2> PICK o \in Org : orgs[o] # None /\ orgs[o].customer = u /\ Goto(h, "apply", o, orgs[o])
      BY <1>5
  <2> PICK doc : doc = orgs[o]
      OBVIOUS
  <2>1. doc \in OrgDoc /\ doc \in OrgDoc \cup {None} /\ o \in drawn
        /\ LinkedDoc(doc, o) /\ LinkedDoc(doc, o)'
      BY <1>3 DEF IInv, TypeOK, NamedIsDrawn, OrgsAreLinked, LinkedDoc
  <2>2. PICK x \in Job : /\ job' = [job EXCEPT ![h] = x] /\ x.at = "apply" /\ x.u = u /\ x.o = o
                         /\ x.doc = doc
      BY <1>1, <2>1, PayingMoves
  <2>3. MayRely(x)' /\ x.at \notin Seating
    <3>1. LinkedDoc(x.doc, x.o)'
        BY <2>1, <2>2 DEF LinkedDoc
    <3> QED
        BY <1>1, <1>2, <1>3, <2>1, <2>2, <3>1, PayingRelies
  <2>4. Fits(h, x)
    <3>1. orgs[o].customer # None
        BY <1>2
    <3>2. ~Unseated(o)
        BY <3>1 DEF IInv, KnownIsSeated
    <3>3. \A g \in Handler : job[g] # None /\ job[g].at \in Seating => job[g].o # o
        BY <3>1 DEF IInv, JobsRely, MayRely, Seating
    <3> QED
        BY <1>1, <2>2, <2>3, <3>2, <3>3 DEF Fits
  <2> QED
      BY <1>3, <2>2, <2>3, <2>4, JobMoves
<1> QED
    BY <1>4, <1>5 DEF FindOrg

(* The org of the account, or a new one that nobody else names.             *)
LEMMA LinkReadKeeps ==
  ASSUME IInv, NEW h \in Handler, LinkRead(h)
  PROVE  IInv'
<1> PICK u : u = job[h].u
    OBVIOUS
<1>1. /\ job[h] # None /\ job[h].at \in Paying
      /\ "linkGet" \in Paying \ Unplaced /\ "linkGet" \notin Creating /\ "linkGet" \notin Overwriting
      /\ "linkAccount" \in Paying \ Unplaced /\ "linkAccount" \in Creating
      /\ "linkGet" # "linkAccount" /\ "linkGet" # "apply" /\ "linkAccount" # "apply"
    BY DEF LinkRead, At, Paying, Unplaced, Creating, Overwriting
<1>2. u \in User /\ u \in Payer
    BY <1>1, PayingStands
<1>3. UNCHANGED <<store, claims, mints, history>> /\ orgs' = orgs
    BY DEF LinkRead, store
<1>4. CASE accounts[u] # None /\ Goto(h, "linkGet", accounts[u], None) /\ UNCHANGED drawn
  <2> PICK o : o = accounts[u]
      OBVIOUS
  <2>1. /\ o \in drawn /\ o \in Org /\ ~Unknown(o)
        /\ drawn \subseteq drawn' /\ drawn' \subseteq Org
      BY <1>2, <1>4 DEF IInv, TypeOK, NamedIsDrawn, Unknown
  <2>2. PICK x \in Job : job' = [job EXCEPT ![h] = x] /\ x.at = "linkGet" /\ x.u = u /\ x.o = o
      BY <1>1, <1>4, <2>1, PayingMoves
  <2>3. MayRely(x)' /\ x.at \notin Seating
      BY <1>1, <1>2, <1>4, <2>1, <2>2, PayingRelies
  <2>4. Fits(h, x)
      BY <1>1, <2>1, <2>2, <2>3, KnownFits
  <2> QED
      BY <1>3, <2>1, <2>2, <2>3, <2>4, JobMoves
<1>5. CASE \E o \in Org : Draw(o) /\ Goto(h, "linkAccount", o, NewPersonal(u))
  <2> PICK o \in Org : Draw(o) /\ Goto(h, "linkAccount", o, NewPersonal(u))
      BY <1>5
  <2> PICK doc : doc = NewPersonal(u)
      OBVIOUS
  <2>1. /\ doc \in OrgDoc /\ doc \in OrgDoc \cup {None} /\ doc.owner = u
        /\ \A m : LinkedDoc(doc, m)'
      BY <1>2, NewPersonalIsDoc DEF LinkedDoc
  <2>2. o \notin drawn /\ o \in drawn' /\ drawn \subseteq drawn' /\ drawn' \subseteq Org /\ orgs'[o] = None
      BY <1>3 DEF Draw, IInv, TypeOK, NamedIsDrawn
  <2>3. PICK x \in Job : /\ job' = [job EXCEPT ![h] = x] /\ x.at = "linkAccount" /\ x.u = u /\ x.o = o
                         /\ x.doc = doc
      BY <1>1, <2>1, PayingMoves
  <2>4. MayRely(x)'
    <3>1. LinkedDoc(x.doc, x.o)'
        BY <2>1, <2>3 DEF LinkedDoc
    <3> QED
        BY <1>1, <1>2, <2>1, <2>2, <2>3, <3>1, PayingRelies
  <2>5. Fits(h, x)
      BY <2>2, <2>3, NewFits
  <2> QED
      BY <1>3, <2>2, <2>3, <2>4, <2>5, JobMoves
<1> QED
    BY <1>4, <1>5 DEF LinkRead

(* The account may point at an org before the org is written.               *)
LEMMA LinkAccountKeeps ==
  ASSUME IInv, NEW h \in Handler, LinkAccount(h)
  PROVE  IInv'
<1> PICK o, u, doc : o = job[h].o /\ u = job[h].u /\ doc = job[h].doc
    OBVIOUS
<1>1. /\ job[h] # None /\ job[h].at \in Paying /\ job[h].at \notin Unplaced /\ job[h].at = "linkAccount"
      /\ job[h].at \in Overwriting /\ job[h].at \in Creating /\ job[h].at # "meOrg"
      /\ "linkPut" \in Paying \ Unplaced /\ "linkPut" \in Creating
      /\ "linkPut" # "linkAccount" /\ "linkPut" # "apply"
    BY DEF LinkAccount, At, Paying, Unplaced, Creating, Overwriting
<1>2. /\ u \in User /\ u \in Payer /\ o \in drawn /\ o \in Org /\ ~Unseated(o)
      /\ doc \in OrgDoc /\ doc \in OrgDoc \cup {None} /\ orgs[o] = None /\ doc.owner \in Payer
      /\ LinkedDoc(doc, o)
    BY <1>1, PayingStands
<1>3. PICK x \in Job : job' = [job EXCEPT ![h] = x] /\ x.at = "linkPut" /\ x.u = u /\ x.o = o /\ x.doc = doc
    BY <1>1, <1>2, PayingMoves DEF LinkAccount
<1>4. /\ accounts' = [accounts EXCEPT ![u] = o] /\ orgs' = orgs
      /\ UNCHANGED <<orgs, members, invites, claims, mints, drawn, history>>
    BY DEF LinkAccount, PutAccount
<1>5. TypeOK'
    BY <1>2, <1>3, <1>4 DEF IInv, TypeOK
<1>6. Documents(o)
    BY <1>2, <1>4, SameDocuments
<1>7. Names(o)
    BY <1>2, <1>4 DEF Names, IInv, TypeOK
<1>8. MayRely(x)' /\ x.at \notin Seating
  <2>1. LinkedDoc(x.doc, x.o)'
      BY <1>2, <1>3, <1>4 DEF LinkedDoc
  <2> QED
      BY <1>1, <1>2, <1>3, <1>4, <2>1, PayingRelies
<1>9. Jobs(o)
    BY <1>1, <1>2, <1>3, <1>8, MovesOn
<1> QED
    BY <1>2, <1>5, <1>6, <1>7, <1>9, WriteKeeps

(* The org of the account, or a new one if it is not there.                 *)
LEMMA LinkGetKeeps ==
  ASSUME IInv, NEW h \in Handler, LinkGet(h)
  PROVE  IInv'
<1> PICK o, u : o = job[h].o /\ u = job[h].u
    OBVIOUS
<1>1. /\ job[h] # None /\ job[h].at \in Paying /\ job[h].at \notin Unplaced /\ job[h].at \notin Seating
      /\ "linkPut" \in Paying \ Unplaced /\ "linkPut" \in Creating
      /\ "linkPut" # "linkAccount" /\ "linkPut" # "apply"
    BY DEF LinkGet, At, Paying, Unplaced, Creating, Seating
<1>2. u \in User /\ u \in Payer /\ o \in drawn /\ o \in Org /\ ~Unseated(o)
    BY <1>1, PayingStands
<1>3. UNCHANGED <<store, claims, mints, history>> /\ orgs' = orgs
    BY DEF LinkGet, store
<1>4. CASE orgs[o] # None /\ Goto(h, "linkPut", o, orgs[o]) /\ UNCHANGED drawn
  <2> PICK doc : doc = orgs[o]
      OBVIOUS
  <2>1. /\ doc \in OrgDoc /\ doc \in OrgDoc \cup {None} /\ LinkedDoc(doc, o)'
        /\ drawn \subseteq drawn' /\ drawn' \subseteq Org
      BY <1>2, <1>3, <1>4 DEF IInv, TypeOK, OrgsAreLinked, LinkedDoc
  <2>2. PICK x \in Job : /\ job' = [job EXCEPT ![h] = x] /\ x.at = "linkPut" /\ x.u = u /\ x.o = o
                         /\ x.doc = doc
      BY <1>1, <1>2, <1>4, <2>1, PayingMoves
  <2>3. MayRely(x)' /\ x.at \notin Seating
    <3>1. LinkedDoc(x.doc, x.o)'
        BY <2>1, <2>2 DEF LinkedDoc
    <3> QED
        BY <1>1, <1>2, <1>3, <1>4, <2>1, <2>2, <3>1, PayingRelies
  <2>4. Fits(h, x)
      BY <1>1, <1>2, <1>4, <2>2, <2>3 DEF Fits, IInv, MadeUnseen
  <2> QED
      BY <1>3, <2>1, <2>2, <2>3, <2>4, JobMoves
<1>5. CASE \E n \in Org : Draw(n) /\ Goto(h, "linkPut", n, NewPersonal(u))
  <2> PICK n \in Org : Draw(n) /\ Goto(h, "linkPut", n, NewPersonal(u))
      BY <1>5
  <2> PICK doc : doc = NewPersonal(u)
      OBVIOUS
  <2>1. /\ doc \in OrgDoc /\ doc \in OrgDoc \cup {None} /\ doc.owner = u
        /\ \A m : LinkedDoc(doc, m)'
      BY <1>2, NewPersonalIsDoc DEF LinkedDoc
  <2>2. n \notin drawn /\ n \in drawn' /\ drawn \subseteq drawn' /\ drawn' \subseteq Org /\ orgs'[n] = None
      BY <1>3 DEF Draw, IInv, TypeOK, NamedIsDrawn
  <2>3. PICK x \in Job : /\ job' = [job EXCEPT ![h] = x] /\ x.at = "linkPut" /\ x.u = u /\ x.o = n
                         /\ x.doc = doc
      BY <1>1, <2>1, PayingMoves
  <2>4. MayRely(x)'
    <3>1. LinkedDoc(x.doc, x.o)'
        BY <2>1, <2>3 DEF LinkedDoc
    <3> QED
        BY <1>1, <1>2, <2>1, <2>2, <2>3, <3>1, PayingRelies
  <2>5. Fits(h, x)
      BY <2>2, <2>3, NewFits
  <2> QED
      BY <1>3, <2>2, <2>3, <2>4, <2>5, JobMoves
<1> QED
    BY <1>4, <1>5 DEF LinkGet

(* Every step of the service.                                               *)
LEMMA NextKeeps == IInv /\ [Next]_vars => IInv'
<1> SUFFICES ASSUME IInv, [Next]_vars PROVE IInv'
    OBVIOUS
<1>1. CASE UNCHANGED vars
    BY <1>1, NothingMoves DEF vars
<1>2. CASE \E h \in Handler, u \in User : GetMe(h, u)
    BY <1>2, BeginKeeps
<1>3. CASE \E h \in Handler, u \in User, t \in Invite : AcceptInvite(h, u, t)
    BY <1>3, BeginKeeps
<1>4. CASE \E h \in Handler, u \in Payer : Checkout(h, u)
    BY <1>4, BeginKeeps, AccountsAssumption
<1>5. CASE \E h \in Handler, u \in Payer, e \in 0 .. PastDue : StripeWebhook(h, u, e)
    BY <1>5, BeginKeeps, AccountsAssumption
<1>6. ASSUME NEW h \in Handler, Step(h) PROVE IInv'
    BY <1>6, MeReadKeeps, MeOrgKeeps, MeMemberKeeps, MeAccountKeeps, AcceptReadKeeps, AcceptCheckKeeps,
       AcceptJoinKeeps, AcceptMarkKeeps, AcceptAccountKeeps, AcceptPointKeeps, AcceptAppsKeeps,
       CheckoutAccountKeeps, CheckoutReadKeeps, CheckoutLinkKeeps, LinkReadKeeps, LinkAccountKeeps,
       LinkGetKeeps, LinkPutKeeps, FindOrgKeeps, ApplyKeeps DEF Step
<1>7. ASSUME NEW h \in Handler, Fail(h) PROVE IInv'
    BY <1>7, DoneKeeps DEF Fail
<1>8. CASE \E u \in User, o \in Org, t \in Invite, r \in Role : CreateInvite(u, o, t, r)
    BY <1>8, InviteKeeps
<1>9. CASE \E u, v \in User, o \in Org : RemoveMember(u, o, v)
    BY <1>9, RemoveKeeps
<1>10. CASE \E k \in Task : Mint(k) \/ MintFails(k)
    BY <1>10, MintKeeps
<1>11. CASE \E u \in Payer : CheckoutElsewhere(u) \/ Subscribe(u) \/ PaymentFails(u)
    BY <1>11, NothingMoves DEF CheckoutElsewhere, Subscribe, PaymentFails
<1> QED
    BY <1>1, <1>2, <1>3, <1>4, <1>5, <1>6, <1>7, <1>8, <1>9, <1>10, <1>11 DEF Next

(* The invariant, for every behaviour of the service.                       *)
THEOREM Invariance == Spec => []IInv
<1> QED
    BY InitIInv, NextKeeps, PTL DEF Spec

(* accounts: whoever get_me made an org for is its admin as long as its     *)
(* account points there, whatever else the handlers of the service did.     *)
THEOREM OwnersStayAdmins == Spec => []OwnerIsAdmin
<1>1. IInv => OwnerIsAdmin
  <2> SUFFICES ASSUME IInv, NEW u \in User, u \notin Payer, accounts[u] # None, orgs[accounts[u]] # None,
                      orgs[accounts[u]].owner = u
               PROVE  members[accounts[u]][u] = "admin"
      BY DEF OwnerIsAdmin, OwnerAdmin
  <2>1. accounts[u] \in Org /\ ~Unknown(accounts[u])
      BY DEF IInv, TypeOK, Unknown
  <2> QED
      BY <2>1 DEF IInv, KnownIsSeated, Unseated
<1> QED
    BY <1>1, Invariance, PTL

(* An invite is marked as used, and a token names an org, only for users    *)
(* who joined it or own it.                                                 *)
THEOREM MembersEarnedIt == Spec => []MembershipIsEarned
<1>1. IInv => MembershipIsEarned
    BY DEF IInv
<1> QED
    BY <1>1, Invariance, PTL

(* Whatever stale copies are put back, and however often one payer replaces *)
(* another: the plan of an org is of the subscription of a payer who linked *)
(* himself to it, and so did the customer it names.                         *)
THEOREM PaidOrgsStayLinked == Spec => []PaidOrgIsLinked
<1>1. IInv => PaidOrgIsLinked
    BY DEF IInv, OrgsAreLinked, LinkedDoc, PaidOrgIsLinked
<1> QED
    BY <1>1, Invariance, PTL
==============================================================================
