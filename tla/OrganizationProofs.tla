---------------------------- MODULE OrganizationProofs ----------------------------
(***************************************************************************)
(* What the handlers of a team guarantee for any number of users, invites, *)
(* keys and requests in flight, in whatever order their statements come    *)
(* and wherever they are cut short.                                        *)
(***************************************************************************)
EXTENDS Organization, FiniteSetTheorems, TLAPS

-----------------------------------------------------------------------------
(* What a request carries.                                                 *)

OfTeam == {"view", "changeRole", "removeMember", "createInvite", "revokeInvite"}

\* A request's step tells its kind, and it has the arguments of its kind.
Proper(r) ==
    /\ r.pc = "idle" \/ r.op = "none" => r = Idle
    /\ r.pc \in {"addOwner", "setTenant"} => r.op \in OfTeam
    /\ r.pc \in OfTeam => r.op = r.pc
    /\ r.pc \in {"remove", "deleteKeys", "deleteSessions"} => r.op = "removeMember"
    /\ r.pc \in {"join", "mark", "mintForInvite"} => r.op = "accept"
    /\ r.pc = "mint" => r.op = "mint"
    /\ r.pc \in {"listKeys", "deleteKey"} => r.op = "revokeKey"
    /\ r.pc \in {"addOwner", "setTenant"} \/ r.op \in {"accept", "mint", "revokeKey"}
          => r.by \in Users
    /\ r.op \in {"changeRole", "removeMember", "createInvite"} => r.target \in Users
    /\ r.op \in {"changeRole", "createInvite", "accept"} => r.role \in Roles
    /\ r.pc \in {"addOwner", "setTenant"} /\ r.op \in {"changeRole", "removeMember"}
          => r.by # r.target
    /\ r.op \in {"revokeInvite", "accept"} => r.target \in Invites
    /\ r.op = "revokeKey" => r.target \in Keys

\* An invite that can be redeemed names somebody and a role.
Addressed(i) == invite[i].state = "pending" => invite[i].user \in Users /\ invite[i].role \in Roles

BaseInv ==
    /\ TypeOK
    /\ \A q \in Requests : Proper(req[q])
    /\ \A i \in Invites : Addressed(i)

-----------------------------------------------------------------------------
(* One key per invite.                                                     *)

Minting(q, i) == At(q, "mintForInvite") /\ req[q].target = i

\* Whoever mints for an invite has marked it as accepted, and nobody else has.
MintsOnce ==
    \A i \in Invites :
        /\ minted[i] \in {0, 1}
        /\ minted[i] = 1 => invite[i].state = "accepted"
        /\ \A q \in Requests : Minting(q, i) =>
              /\ invite[i].state = "accepted" /\ minted[i] = 0
              /\ \A p \in Requests : Minting(p, i) => p = q

InviteInv == BaseInv /\ MintsOnce

-----------------------------------------------------------------------------
(* The last admin and the last key.                                        *)

\* What a request that takes something away has seen: another admin than the one who
\* loses the role, another key than the one that goes.
Grounded(r) ==
    /\ r.pc \in {"changeRole", "remove"} => r.seen # {r.target}
    /\ r.pc = "deleteKey" => ~(r.seen \subseteq {r.target})

LastInv == BaseInv /\ \A q \in Requests : Grounded(req[q])

-----------------------------------------------------------------------------
(* Keys and members.                                                       *)

\* Before a project has its organisation there is nobody but the owner.
OwnerFirst ==
    ~tenant =>
        /\ \A i \in Invites : invite[i].state = "unused"
        /\ \A k \in LiveKeys : key[k].user \in {Owner, NoUser}
        /\ \A q \in Requests :
              /\ req[q].pc \in {"idle", "addOwner", "setTenant", "mint", "listKeys", "deleteKey"}
              /\ req[q].by \in {Owner, NoUser}
              /\ At(q, "setTenant") => member[Owner] # None

\* A key of nobody is one the project has started with.
NobodysKeys == \A k \in LiveKeys : key[k].user = NoUser => NoUser \in FirstKeys

\* A sign-in's key is the owner's and has no role of its own.
SigninKeys ==
    \A k \in LiveKeys :
        key[k].source = "signin" => key[k].user = Owner /\ key[k].role = Inherited

\* Whom a key may be of, or on its way to.
Accounted(u) ==
    \/ u \in Users /\ member[u] # None
    \/ NoUser \in FirstKeys /\ u \in {NoUser, Owner}
    \/ \E q \in Requests : At(q, "deleteKeys") /\ req[q].target = u
    \/ u \in raced

MintingSteps == {"mark", "mintForInvite", "mint"}

\* Whoever a key is being minted for is a member, or loses what is minted before, or
\* is known to have been overtaken.
MintsForMembers ==
    tenant /\ errors = 0 =>
        \A q \in Requests : req[q].pc \in MintingSteps => Accounted(req[q].by)

KeysInv ==
    /\ BaseInv /\ OwnerFirst /\ NobodysKeys /\ SigninKeys
    /\ MintsForMembers /\ KeysGoWithTheMember

-----------------------------------------------------------------------------
(* What a step does to the requests.                                       *)

LEMMA GotoEffect ==
  ASSUME BaseInv, NEW q \in Requests, NEW pc \in Steps, Goto(q, pc)
  PROVE  /\ req' \in [Requests -> RequestType]
         /\ \A p \in Requests : p # q => req'[p] = req[p]
         /\ req'[q].pc = pc /\ req'[q].op = req[q].op /\ req'[q].by = req[q].by
         /\ req'[q].target = req[q].target /\ req'[q].role = req[q].role
         /\ req'[q].seen = req[q].seen
  <1>1. req[q] \in RequestType /\ req \in [Requests -> RequestType]
    BY DEF BaseInv, TypeOK
  <1>2. req' = [req EXCEPT ![q] = [req[q] EXCEPT !.pc = pc]]
    BY DEF Goto
  <1> QED
    BY <1>1, <1>2 DEF RequestType

LEMMA EndEffect ==
  ASSUME BaseInv, NEW q \in Requests, End(q)
  PROVE  /\ req' \in [Requests -> RequestType]
         /\ \A p \in Requests : p # q => req'[p] = req[p]
         /\ req'[q] = Idle
  <1>1. Idle \in RequestType
    BY DEF Idle, RequestType, Steps
  <1> QED
    BY <1>1 DEF BaseInv, TypeOK, End

\* A request that has read something and goes on with it, or stops.
Moves(q, pc, seen) ==
    \/ req'[q] = Idle
    \/ /\ req'[q].pc = pc /\ req'[q].op = req[q].op /\ req'[q].by = req[q].by
       /\ req'[q].target = req[q].target /\ req'[q].role = req[q].role
       /\ req'[q].seen = seen

LEMMA ReadEffect ==
  ASSUME BaseInv, NEW q \in Requests,
         ListOrganizationMembers(q) \/ RemoveOrganizationMember(q) \/ ListAPIKeysForProject(q)
  PROVE  /\ req' \in [Requests -> RequestType]
         /\ \A p \in Requests : p # q => req'[p] = req[p]
         /\ ListOrganizationMembers(q) =>
               /\ Moves(q, "remove", Admins)
               /\ LastAdmin(req[q].target) => req'[q] = Idle
         /\ RemoveOrganizationMember(q) =>
               /\ Moves(q, "deleteKeys", {})
               /\ member[req[q].target] # None => req'[q].pc = "deleteKeys"
         /\ ListAPIKeysForProject(q) =>
               /\ Moves(q, "deleteKey", ListedKeys)
               /\ LastKey => req'[q] = Idle
  <1>1. /\ Admins \in SUBSET (Users \union Keys) /\ ListedKeys \in SUBSET (Users \union Keys)
        /\ {} \in SUBSET (Users \union Keys)
        /\ "remove" \in Steps /\ "deleteKeys" \in Steps /\ "deleteKey" \in Steps
    BY DEF Admins, ListedKeys, LiveKeys, Steps
  <1>2. ASSUME NEW pc \in Steps, NEW seen \in SUBSET (Users \union Keys),
               req' = [req EXCEPT ![q].pc = pc, ![q].seen = seen]
        PROVE  /\ req' \in [Requests -> RequestType]
               /\ \A p \in Requests : p # q => req'[p] = req[p]
               /\ Moves(q, pc, seen) /\ req'[q].pc = pc
    <2>1. req[q] \in RequestType /\ req \in [Requests -> RequestType]
      BY DEF BaseInv, TypeOK
    <2>2. req' = [req EXCEPT ![q] = [req[q] EXCEPT !.pc = pc, !.seen = seen]]
      BY <1>2, <2>1
    <2> QED
      BY <2>1, <2>2 DEF RequestType, Moves
  <1>3. ASSUME End(q)
        PROVE  /\ req' \in [Requests -> RequestType]
               /\ \A p \in Requests : p # q => req'[p] = req[p]
               /\ req'[q] = Idle
    BY <1>3, EndEffect
  <1>4. At(q, "listKeys") => ~At(q, "removeMember") /\ ~At(q, "remove")
    BY DEF At
  <1>5. At(q, "removeMember") => ~At(q, "remove")
    BY DEF At
  <1>6. CASE ListOrganizationMembers(q)
    <2>1. ~RemoveOrganizationMember(q) /\ ~ListAPIKeysForProject(q)
      BY <1>4, <1>5, <1>6 DEF ListOrganizationMembers, RemoveOrganizationMember,
                              ListAPIKeysForProject
    <2>2. IF LastAdmin(req[q].target) THEN End(q)
          ELSE req' = [req EXCEPT ![q].pc = "remove", ![q].seen = Admins]
      BY <1>6 DEF ListOrganizationMembers
    <2>3. CASE LastAdmin(req[q].target)
      BY <2>1, <2>2, <2>3, <1>3 DEF Moves
    <2>4. CASE ~LastAdmin(req[q].target)
      <3>1. req' = [req EXCEPT ![q].pc = "remove", ![q].seen = Admins]
        BY <2>2, <2>4
      <3> QED
        BY <3>1, <2>1, <2>4, <1>1, <1>2
    <2> QED
      BY <2>3, <2>4
  <1>7. CASE RemoveOrganizationMember(q)
    <2>1. ~ListOrganizationMembers(q) /\ ~ListAPIKeysForProject(q)
      BY <1>4, <1>5, <1>7 DEF ListOrganizationMembers, RemoveOrganizationMember,
                              ListAPIKeysForProject
    <2>2. IF member[req[q].target] = None THEN End(q)
          ELSE req' = [req EXCEPT ![q].pc = "deleteKeys", ![q].seen = {}]
      BY <1>7 DEF RemoveOrganizationMember
    <2>3. CASE member[req[q].target] = None
      BY <2>1, <2>2, <2>3, <1>3 DEF Moves
    <2>4. CASE member[req[q].target] # None
      <3>1. req' = [req EXCEPT ![q].pc = "deleteKeys", ![q].seen = {}]
        BY <2>2, <2>4
      <3> QED
        BY <3>1, <2>1, <2>4, <1>1, <1>2
    <2> QED
      BY <2>3, <2>4
  <1>8. CASE ListAPIKeysForProject(q)
    <2>1. ~ListOrganizationMembers(q) /\ ~RemoveOrganizationMember(q)
      BY <1>4, <1>8 DEF ListOrganizationMembers, RemoveOrganizationMember,
                        ListAPIKeysForProject
    <2>2. \/ End(q)
          \/ ~LastKey /\ req' = [req EXCEPT ![q].pc = "deleteKey", ![q].seen = ListedKeys]
      BY <1>8 DEF ListAPIKeysForProject
    <2>3. CASE End(q)
      BY <2>1, <2>3, <1>3 DEF Moves
    <2>4. CASE ~LastKey /\ req' = [req EXCEPT ![q].pc = "deleteKey", ![q].seen = ListedKeys]
      <3>1. req' = [req EXCEPT ![q].pc = "deleteKey", ![q].seen = ListedKeys]
        BY <2>4
      <3> QED
        BY <3>1, <2>1, <2>4, <1>1, <1>2
    <2> QED
      BY <2>2, <2>3, <2>4
  <1> QED
    BY <1>6, <1>7, <1>8

LEMMA SetTenantEffect ==
  ASSUME BaseInv, NEW q \in Requests, SetProjectTenantID(q)
  PROVE  /\ req' \in [Requests -> RequestType]
         /\ \A p \in Requests : p # q => req'[p] = req[p]
         /\ \/ req'[q] = Idle
            \/ /\ member[req[q].by] = "admin"
               /\ req'[q].pc = req[q].op /\ req'[q].op = req[q].op /\ req'[q].by = NoUser
               /\ req'[q].target = req[q].target /\ req'[q].role = req[q].role
               /\ req'[q].seen = Grounds(req[q].op)
  <1>1. req[q] \in RequestType /\ req \in [Requests -> RequestType]
    BY DEF BaseInv, TypeOK
  <1>2. req[q].op \in Steps /\ Grounds(req[q].op) \in SUBSET (Users \union Keys)
    BY DEF BaseInv, Proper, SetProjectTenantID, At, OfTeam, Steps, Grounds, Admins
  <1>3. CASE member[req[q].by] = "admin"
    <2>1. req' = [req EXCEPT ![q] = [req[q] EXCEPT !.pc = req[q].op, !.by = NoUser,
                                                  !.seen = Grounds(req[q].op)]]
      BY <1>1, <1>3 DEF SetProjectTenantID
    <2> QED
      BY <1>1, <1>2, <1>3, <2>1 DEF RequestType
  <1>4. CASE member[req[q].by] # "admin"
    <2>1. Idle \in RequestType
      BY DEF Idle, RequestType, Steps
    <2> QED
      BY <1>1, <1>4, <2>1 DEF SetProjectTenantID, End
  <1> QED
    BY <1>3, <1>4

LEMMA BeginEffect ==
  ASSUME BaseInv, NEW q \in Requests, NEW r \in RequestType, Begin(q, r)
  PROVE  /\ req' \in [Requests -> RequestType]
         /\ \A p \in Requests : p # q => req'[p] = req[p]
         /\ req'[q] = r
  BY DEF BaseInv, TypeOK, Begin

\* A step of one request leaves the others proper, and itself if it is.
LEMMA OnlyOne ==
  ASSUME BaseInv, NEW q \in Requests, \A p \in Requests : p # q => req'[p] = req[p],
         Proper(req'[q])
  PROVE  \A p \in Requests : Proper(req'[p])
  BY DEF BaseInv

LEMMA IdleIsProper == Proper(Idle)
  BY DEF Proper, Idle, OfTeam

-----------------------------------------------------------------------------
(* Types and requests.                                                     *)

LEMMA InitBase == Init => BaseInv
  <1> SUFFICES ASSUME Init PROVE BaseInv
    OBVIOUS
  <1>1. Idle \in RequestType /\ NoInvite \in InviteType /\ Unused \in KeyType
    BY DEF Idle, RequestType, Steps, NoInvite, InviteType, Unused, KeyType
  <1>2. member \in [Users -> Roles \union {None}] /\ tenant \in BOOLEAN
    BY DEF Init, Roles
  <1>3. key \in [Keys -> KeyType]
    BY <1>1, ConstantsAssumption DEF Init, KeyType
  <1>4. errors \in 0 .. MaxErrors /\ session \in BOOLEAN /\ raced \subseteq Users
    <2>1. errors \in 0 .. MaxErrors
      BY ConstantsAssumption DEF Init
    <2>2. session \in BOOLEAN /\ raced \subseteq Users
      BY DEF Init
    <2> QED
      BY <2>1, <2>2
  <1>5. TypeOK
    <2>1. invite \in [Invites -> InviteType] /\ req \in [Requests -> RequestType]
          /\ minted \in [Invites -> Nat]
      BY <1>1 DEF Init
    <2> QED
      BY <2>1, <1>2, <1>3, <1>4 DEF TypeOK
  <1>6. (\A q \in Requests : Proper(req[q])) /\ \A i \in Invites : Addressed(i)
    BY IdleIsProper DEF Init, Addressed, NoInvite
  <1> QED
    BY <1>5, <1>6 DEF BaseInv

\* A step of one request that keeps the rows of their types.
LEMMA BaseStep ==
  ASSUME BaseInv, NEW q \in Requests, req' \in [Requests -> RequestType],
         \A p \in Requests : p # q => req'[p] = req[p], Proper(req'[q]),
         tenant' \in BOOLEAN, session' \in BOOLEAN,
         member' \in [Users -> Roles \union {None}], key' \in [Keys -> KeyType],
         minted' \in [Invites -> Nat], errors' \in 0 .. MaxErrors, raced' \subseteq Users,
         invite' \in [Invites -> InviteType], \A i \in Invites : Addressed(i)'
  PROVE  BaseInv'
  BY OnlyOne DEF BaseInv, TypeOK

\* A request that has begun, and changed nothing.
LEMMA BaseBegin ==
  ASSUME BaseInv, NEW q \in Requests, NEW r \in RequestType, Begin(q, r), Proper(r),
         UNCHANGED <<tenant, member, invite, key, session, minted, raced, errors>>
  PROVE  BaseInv'
  <1>1. /\ req' \in [Requests -> RequestType]
        /\ \A p \in Requests : p # q => req'[p] = req[p]
        /\ req'[q] = r
    BY BeginEffect
  <1> QED
    BY <1>1, BaseStep DEF BaseInv, TypeOK, Addressed

\* What a request for an admin carries.
LEMMA BaseBeginAsAdmin ==
  ASSUME BaseInv, NEW q \in Requests, NEW op \in OfTeam, NEW by \in TeamCallers,
         NEW target \in Users \union Invites \union Keys \union {NoUser},
         NEW role \in Roles \union {None},
         BeginAsAdmin(q, op, by, target, role),
         op \in {"changeRole", "removeMember", "createInvite"} => target \in Users,
         op \in {"changeRole", "createInvite"} => role \in Roles,
         op \in {"changeRole", "removeMember"} => by # target,
         op = "revokeInvite" => target \in Invites
  PROVE  BaseInv'
  <1> DEFINE r == [pc |-> IF tenant THEN op ELSE "addOwner", op |-> op,
                   by |-> IF tenant THEN NoUser ELSE by, target |-> target, role |-> role,
                   seen |-> IF tenant THEN Grounds(op) ELSE {}]
  <1>1. by \in Users
    BY ConstantsAssumption DEF TeamCallers, Callers, Acting, LiveKeys, BaseInv, TypeOK, KeyType
  <1>2. r \in RequestType /\ Proper(r)
    BY <1>1 DEF RequestType, Steps, Proper, OfTeam, Idle, Grounds, Admins
  <1>3. Begin(q, r) /\ UNCHANGED <<tenant, member, invite, key, session, minted, raced, errors>>
    BY DEF BeginAsAdmin
  <1> QED
    BY <1>2, <1>3, BaseBegin

LEMMA BaseArrive ==
  ASSUME BaseInv, NEW q \in Requests, Arrive(q)
  PROVE  BaseInv'
  <1>1. CASE View(q)
    BY <1>1, BaseBeginAsAdmin DEF View, OfTeam
  <1>2. CASE \E u \in Users, role \in Roles : HandleUpdateMemberRole(q, u, role)
    BY <1>2, BaseBeginAsAdmin DEF HandleUpdateMemberRole, OfTeam, NotSelf
  <1>3. CASE \E u \in Users, role \in Roles : HandleCreateInvite(q, u, role)
    BY <1>3, BaseBeginAsAdmin DEF HandleCreateInvite, OfTeam
  <1>4. CASE \E u \in Users : HandleRemoveMember(q, u)
    BY <1>4, BaseBeginAsAdmin DEF HandleRemoveMember, OfTeam, NotSelf
  <1>5. CASE \E i \in Invites : HandleRevokeInvite(q, i)
    BY <1>5, BaseBeginAsAdmin DEF HandleRevokeInvite, OfTeam
  <1>6. CASE \E i \in Invites : HandleAcceptInvite(q, i)
    <2>1. PICK i \in Invites : HandleAcceptInvite(q, i)
      BY <1>6
    <2> DEFINE r == [pc |-> "join", op |-> "accept", by |-> invite[i].user,
                     target |-> i, role |-> invite[i].role, seen |-> {}]
    <2>2. invite[i].user \in Users /\ invite[i].role \in Roles
      BY <2>1 DEF BaseInv, Addressed, HandleAcceptInvite
    <2>3. r \in RequestType /\ Proper(r)
      BY <2>2 DEF RequestType, Steps, Proper, OfTeam, Idle
    <2> QED
      BY <2>1, <2>3, BaseBegin DEF HandleAcceptInvite
  <1>7. CASE \E role \in Roles \union {Inherited} : HandleCreateAPIKey(q, role)
    <2>1. PICK role \in Roles \union {Inherited} : HandleCreateAPIKey(q, role)
      BY <1>7
    <2>2. PICK c \in Callers :
              Begin(q, [pc |-> "mint", op |-> "mint", by |-> Acting(c),
                        target |-> NoUser, role |-> role, seen |-> {}])
      BY <2>1 DEF HandleCreateAPIKey
    <2> DEFINE r == [pc |-> "mint", op |-> "mint", by |-> Acting(c),
                     target |-> NoUser, role |-> role, seen |-> {}]
    <2>3. Acting(c) \in Users
      BY ConstantsAssumption DEF Callers, Acting, LiveKeys, BaseInv, TypeOK, KeyType
    <2>4. r \in RequestType /\ Proper(r)
      BY <2>3 DEF RequestType, Steps, Proper, OfTeam, Idle
    <2> QED
      BY <2>1, <2>2, <2>4, BaseBegin DEF HandleCreateAPIKey
  <1>8. CASE \E k \in Keys : HandleRevokeAPIKey(q, k)
    <2>1. PICK k \in Keys : HandleRevokeAPIKey(q, k)
      BY <1>8
    <2>2. PICK c \in Callers :
              Begin(q, [pc |-> "listKeys", op |-> "revokeKey", by |-> Acting(c),
                        target |-> k, role |-> None, seen |-> {}])
      BY <2>1 DEF HandleRevokeAPIKey
    <2> DEFINE r == [pc |-> "listKeys", op |-> "revokeKey", by |-> Acting(c),
                     target |-> k, role |-> None, seen |-> {}]
    <2>3. Acting(c) \in Users
      BY ConstantsAssumption DEF Callers, Acting, LiveKeys, BaseInv, TypeOK, KeyType
    <2>4. r \in RequestType /\ Proper(r)
      BY <2>3 DEF RequestType, Steps, Proper, OfTeam, Idle
    <2> QED
      BY <2>1, <2>2, <2>4, BaseBegin DEF HandleRevokeAPIKey
  <1> QED
    BY <1>1, <1>2, <1>3, <1>4, <1>5, <1>6, <1>7, <1>8 DEF Arrive

LEMMA BaseProceed ==
  ASSUME BaseInv, NEW q \in Requests, Proceed(q)
  PROVE  BaseInv'
  <1>0. /\ TypeOK /\ req[q] \in RequestType /\ Proper(req[q])
        /\ \A i \in Invites : Addressed(i)
    BY DEF BaseInv, TypeOK
  <1> USE DEF At
  <1>1. CASE AddOwner(q)
    <2>1. /\ req' \in [Requests -> RequestType] /\ Proper(req'[q])
          /\ \A p \in Requests : p # q => req'[p] = req[p]
      BY <1>0, <1>1, GotoEffect DEF AddOwner, Proper, Steps, Idle, OfTeam
    <2> QED
      BY <1>0, <1>1, <2>1, BaseStep DEF AddOwner, TypeOK, Addressed, Roles
  <1>2. CASE SetProjectTenantID(q)
    <2>1. req[q].op \in OfTeam
      BY <1>0, <1>2 DEF SetProjectTenantID, Proper
    <2>2. /\ req' \in [Requests -> RequestType] /\ Proper(req'[q])
          /\ \A p \in Requests : p # q => req'[p] = req[p]
      BY <1>0, <1>2, <2>1, SetTenantEffect, IdleIsProper DEF Proper, Idle, OfTeam
    <2> QED
      BY <1>0, <1>2, <2>2, BaseStep DEF SetProjectTenantID, TypeOK, Addressed
  <1>3. CASE EndView(q)
    BY <1>0, <1>3, EndEffect, IdleIsProper, BaseStep DEF EndView, TypeOK, Addressed
  <1>4. CASE UpdateOrganizationMemberRole(q)
    <2>1. req[q].role \in Roles
      BY <1>0, <1>4 DEF UpdateOrganizationMemberRole, Proper, OfTeam
    <2>2. member' \in [Users -> Roles \union {None}]
      BY <1>0, <1>4, <2>1 DEF UpdateOrganizationMemberRole, TypeOK
    <2> QED
      BY <1>0, <1>4, <2>2, EndEffect, IdleIsProper, BaseStep
         DEF UpdateOrganizationMemberRole, TypeOK, Addressed
  <1>5. CASE ListOrganizationMembers(q)
    <2>1. /\ req' \in [Requests -> RequestType] /\ Proper(req'[q])
          /\ \A p \in Requests : p # q => req'[p] = req[p]
      BY <1>0, <1>5, ReadEffect, IdleIsProper
         DEF ListOrganizationMembers, Moves, Proper, Idle, OfTeam
    <2> QED
      BY <1>0, <1>5, <2>1, BaseStep DEF ListOrganizationMembers, TypeOK, Addressed
  <1>6. CASE RemoveOrganizationMember(q)
    <2>1. /\ req' \in [Requests -> RequestType] /\ Proper(req'[q])
          /\ \A p \in Requests : p # q => req'[p] = req[p]
      BY <1>0, <1>6, ReadEffect, IdleIsProper
         DEF RemoveOrganizationMember, Moves, Proper, Idle, OfTeam
    <2> QED
      BY <1>0, <1>6, <2>1, BaseStep DEF RemoveOrganizationMember, TypeOK, Addressed
  <1>7. CASE DeleteAPIKeysByUserID(q)
    <2>1. /\ req' \in [Requests -> RequestType] /\ Proper(req'[q])
          /\ \A p \in Requests : p # q => req'[p] = req[p]
      BY <1>0, <1>7, GotoEffect DEF DeleteAPIKeysByUserID, Proper, Steps, Idle, OfTeam
    <2>2. key' \in [Keys -> KeyType]
      BY <1>0, <1>7 DEF DeleteAPIKeysByUserID, Gone, Unused, KeyType, TypeOK
    <2>3. errors' \in 0 .. MaxErrors
      BY <1>0, <1>7, ConstantsAssumption DEF DeleteAPIKeysByUserID, TypeOK
    <2>4. raced' \subseteq Users
      BY <1>0, <1>7 DEF DeleteAPIKeysByUserID, Proper, TypeOK
    <2> QED
      BY <1>0, <1>7, <2>1, <2>2, <2>3, <2>4, BaseStep DEF DeleteAPIKeysByUserID, TypeOK, Addressed
  <1>8. CASE DeleteSessionsByUserID(q)
    <2>1. session' \in BOOLEAN
      BY <1>8 DEF DeleteSessionsByUserID
    <2> QED
      BY <1>0, <1>8, <2>1, EndEffect, IdleIsProper, BaseStep
         DEF DeleteSessionsByUserID, TypeOK, Addressed
  <1>9. CASE CreateOrganizationInvite(q)
    <2>1. req[q].role \in Roles /\ req[q].target \in Users
      BY <1>0, <1>9 DEF CreateOrganizationInvite, Proper, OfTeam
    <2>2. invite' \in [Invites -> InviteType] /\ \A i \in Invites : Addressed(i)'
      BY <1>0, <1>9, <2>1 DEF CreateOrganizationInvite, TypeOK, InviteType, Addressed
    <2> QED
      BY <1>0, <1>9, <2>2, EndEffect, IdleIsProper, BaseStep DEF CreateOrganizationInvite, TypeOK
  <1>10. CASE RevokeOrganizationInvite(q)
    <2>2. invite' \in [Invites -> InviteType] /\ \A i \in Invites : Addressed(i)'
      BY <1>0, <1>10 DEF RevokeOrganizationInvite, TypeOK, InviteType, NoInvite, Addressed
    <2> QED
      BY <1>0, <1>10, <2>2, EndEffect, IdleIsProper, BaseStep DEF RevokeOrganizationInvite, TypeOK
  <1>11. CASE Join(q)
    <2>1. /\ req' \in [Requests -> RequestType] /\ Proper(req'[q])
          /\ \A p \in Requests : p # q => req'[p] = req[p]
      BY <1>0, <1>11, GotoEffect DEF Join, Proper, Steps, Idle, OfTeam
    <2>2. req[q].role \in Roles
      BY <1>0, <1>11 DEF Join, Proper, OfTeam
    <2> QED
      BY <1>0, <1>11, <2>1, <2>2, BaseStep DEF Join, TypeOK, Addressed
  <1>12. CASE MarkInviteAccepted(q)
    <2>1. /\ req' \in [Requests -> RequestType] /\ Proper(req'[q])
          /\ \A p \in Requests : p # q => req'[p] = req[p]
      BY <1>0, <1>12, GotoEffect, EndEffect, IdleIsProper
         DEF MarkInviteAccepted, Proper, Steps, Idle, OfTeam
    <2>2. invite' \in [Invites -> InviteType] /\ \A i \in Invites : Addressed(i)'
      <3>1. [NoInvite EXCEPT !.state = "accepted"] \in InviteType
        BY DEF NoInvite, InviteType
      <3>2. [NoInvite EXCEPT !.state = "accepted"].state # "pending"
        BY DEF NoInvite
      <3>3. \/ UNCHANGED invite
            \/ invite' = [invite EXCEPT ![req[q].target] = [NoInvite EXCEPT !.state = "accepted"]]
        BY <1>12 DEF MarkInviteAccepted
      <3> QED
        BY <1>0, <3>1, <3>2, <3>3 DEF TypeOK, Addressed
    <2> QED
      BY <1>0, <1>12, <2>1, <2>2, BaseStep DEF MarkInviteAccepted, TypeOK
  <1>13. CASE MintForInvite(q)
    <2>1. key' \in [Keys -> KeyType]
      BY <1>0, <1>13 DEF MintForInvite, Mint, TypeOK, KeyType, RequestType
    <2>2. minted' \in [Invites -> Nat]
      <3>1. req[q].target \in Invites
        BY <1>0, <1>13 DEF MintForInvite, Proper, OfTeam
      <3> QED
        BY <1>0, <1>13, <3>1 DEF MintForInvite, TypeOK
    <2> QED
      BY <1>0, <1>13, <2>1, <2>2, EndEffect, IdleIsProper, BaseStep
         DEF MintForInvite, TypeOK, Addressed
  <1>14. CASE CreateAPIKey(q)
    <2>1. key' \in [Keys -> KeyType]
      BY <1>0, <1>14 DEF CreateAPIKey, Mint, TypeOK, KeyType, RequestType
    <2> QED
      BY <1>0, <1>14, <2>1, EndEffect, IdleIsProper, BaseStep DEF CreateAPIKey, TypeOK, Addressed
  <1>15. CASE ListAPIKeysForProject(q)
    <2>1. /\ req' \in [Requests -> RequestType] /\ Proper(req'[q])
          /\ \A p \in Requests : p # q => req'[p] = req[p]
      BY <1>0, <1>15, ReadEffect, IdleIsProper
         DEF ListAPIKeysForProject, Moves, Proper, Idle, OfTeam
    <2> QED
      BY <1>0, <1>15, <2>1, BaseStep DEF ListAPIKeysForProject, TypeOK, Addressed
  <1>16. CASE DeleteAPIKey(q)
    <2>1. key' \in [Keys -> KeyType]
      BY <1>0, <1>16 DEF DeleteAPIKey, Gone, Unused, KeyType, TypeOK
    <2> QED
      BY <1>0, <1>16, <2>1, EndEffect, IdleIsProper, BaseStep DEF DeleteAPIKey, TypeOK, Addressed
  <1> QED
    BY <1>1, <1>2, <1>3, <1>4, <1>5, <1>6, <1>7, <1>8, <1>9, <1>10, <1>11, <1>12, <1>13,
       <1>14, <1>15, <1>16 DEF Proceed

LEMMA NextBase == BaseInv /\ [Next]_vars => BaseInv'
  <1> SUFFICES ASSUME BaseInv, [Next]_vars PROVE BaseInv'
    OBVIOUS
  <1>1. ASSUME NEW q \in Requests, CutShort(q) PROVE BaseInv'
    <2>1. errors' \in 0 .. MaxErrors
      BY <1>1, ConstantsAssumption DEF BaseInv, TypeOK, CutShort
    <2> QED
      BY <1>1, <2>1, EndEffect, IdleIsProper, BaseStep DEF CutShort, BaseInv, TypeOK, Addressed
  <1>2. ASSUME NEW i \in Invites, Expire(i) PROVE BaseInv'
    <2>1. invite' \in [Invites -> InviteType] /\ \A j \in Invites : Addressed(j)'
      BY <1>2 DEF Expire, BaseInv, TypeOK, InviteType, Addressed
    <2> QED
      BY <1>2, <2>1 DEF Expire, BaseInv, TypeOK
  <1>3. CASE HandleSignin
    <2>1. key' \in [Keys -> KeyType]
      BY <1>3, ConstantsAssumption DEF HandleSignin, Mint, BaseInv, TypeOK, KeyType
    <2>2. session' \in BOOLEAN
      BY <1>3 DEF HandleSignin, BaseInv, TypeOK
    <2> QED
      BY <1>3, <2>1, <2>2 DEF HandleSignin, BaseInv, TypeOK, Addressed
  <1>4. CASE SessionExpires
    BY <1>4 DEF SessionExpires, BaseInv, TypeOK, Addressed
  <1>5. CASE UNCHANGED vars
    BY <1>5 DEF vars, BaseInv, TypeOK, Addressed
  <1> QED
    BY <1>1, <1>2, <1>3, <1>4, <1>5, BaseArrive, BaseProceed DEF Next

\* Every request carries what its kind needs, whatever requests overlap and
\* wherever they are cut short.
THEOREM OrganizationRequests == Spec => []BaseInv
  <1> QED
    BY InitBase, NextBase, PTL DEF Spec

\* The rows of members, invites and keys keep their types.
THEOREM OrganizationTypes == Spec => []TypeOK
  <1>1. BaseInv => TypeOK
    BY DEF BaseInv
  <1> QED
    BY <1>1, OrganizationRequests, PTL

\* What the arrival of a request does.
Arrives(q) ==
    /\ UNCHANGED <<tenant, member, invite, key, session, minted, raced, errors>>
    /\ \A p \in Requests : p # q => req'[p] = req[p]
    /\ req[q] = Idle
    /\ req'[q].pc \in OfTeam \union {"addOwner", "join", "mint", "listKeys"}
    /\ req'[q].pc \in OfTeam => tenant
    /\ Grounded(req'[q])
    /\ req'[q].pc = "mint" =>
          \E c \in Callers : CallerRole(c) = "admin" /\ req'[q].by = Acting(c)
    /\ req'[q].pc \in {"addOwner", "mint", "listKeys"}
          => req'[q].by \in {Acting(c) : c \in Callers}
    /\ req'[q].pc = "join" => \E i \in Invites : invite[i].state = "pending"

LEMMA ArriveEffect ==
  ASSUME BaseInv, NEW q \in Requests, Arrive(q)
  PROVE  Arrives(q)
  <1>0. req \in [Requests -> RequestType]
    BY DEF BaseInv, TypeOK
  <1>1. ASSUME NEW op \in OfTeam, NEW by \in TeamCallers, NEW target, NEW role,
               BeginAsAdmin(q, op, by, target, role), op = "changeRole" => by # target
        PROVE  Arrives(q)
    <2> DEFINE r == [pc |-> IF tenant THEN op ELSE "addOwner", op |-> op,
                     by |-> IF tenant THEN NoUser ELSE by, target |-> target, role |-> role,
                     seen |-> IF tenant THEN Grounds(op) ELSE {}]
    <2>1. Begin(q, r) /\ UNCHANGED <<tenant, member, invite, key, session, minted, raced, errors>>
      BY <1>1 DEF BeginAsAdmin
    <2>2. by \in {Acting(c) : c \in Callers} /\ (tenant => by \in Admins)
      <3>1. \A c \in Callers : Acting(c) \in Users
        BY ConstantsAssumption DEF Callers, Acting, LiveKeys, BaseInv, TypeOK, KeyType
      <3> QED
        BY <3>1 DEF TeamCallers, Admins
    <2>3. /\ r.pc \in OfTeam \union {"addOwner"} /\ (r.pc \in OfTeam => tenant)
          /\ (r.pc = "addOwner" => r.by = by)
      BY DEF OfTeam
    <2>5. Grounded(r)
      BY <1>1, <2>2 DEF Grounded, Grounds, OfTeam
    <2> HIDE DEF r
    <2>4. req'[q] = r /\ req[q] = Idle /\ \A p \in Requests : p # q => req'[p] = req[p]
      BY <1>0, <2>1 DEF Begin
    <2> QED
      BY <2>1, <2>2, <2>3, <2>4, <2>5 DEF Begin, OfTeam, Arrives
  <1>2. CASE \/ View(q)
             \/ \E u \in Users, role \in Roles :
                   HandleUpdateMemberRole(q, u, role) \/ HandleCreateInvite(q, u, role)
             \/ \E u \in Users : HandleRemoveMember(q, u)
             \/ \E i \in Invites : HandleRevokeInvite(q, i)
    BY <1>1, <1>2 DEF View, HandleUpdateMemberRole, HandleCreateInvite, HandleRemoveMember,
                      HandleRevokeInvite, NotSelf, OfTeam
  <1>3. ASSUME NEW i \in Invites, HandleAcceptInvite(q, i) PROVE Arrives(q)
    BY <1>0, <1>3 DEF HandleAcceptInvite, Begin, OfTeam, Arrives, Grounded
  <1>4. ASSUME NEW role \in Roles \union {Inherited}, HandleCreateAPIKey(q, role) PROVE Arrives(q)
    BY <1>0, <1>4 DEF HandleCreateAPIKey, Begin, OfTeam, Arrives, Grounded
  <1>5. ASSUME NEW k \in Keys, HandleRevokeAPIKey(q, k) PROVE Arrives(q)
    BY <1>0, <1>5 DEF HandleRevokeAPIKey, Begin, OfTeam, Arrives, Grounded
  <1> QED
    BY <1>2, <1>3, <1>4, <1>5 DEF Arrive

\* Of a request's own steps, which one leads where.
LEMMA WaysOut ==
  ASSUME BaseInv, NEW q \in Requests, Proceed(q) \/ CutShort(q)
  PROVE  /\ req[q] # Idle
         /\ \A p \in Requests : p # q => req'[p] = req[p]
         /\ AddOwner(q) => req'[q].pc = "setTenant"
         /\ SetProjectTenantID(q) => req'[q].pc \in OfTeam \union {"idle"}
         /\ ListOrganizationMembers(q) => req'[q].pc \in {"idle", "remove"}
         /\ RemoveOrganizationMember(q) => req'[q].pc \in {"idle", "deleteKeys"}
         /\ DeleteAPIKeysByUserID(q) => req'[q].pc = "deleteSessions"
         /\ Join(q) => req'[q].pc = "mark"
         /\ MarkInviteAccepted(q) => req'[q].pc \in {"idle", "mintForInvite"}
         /\ ListAPIKeysForProject(q) => req'[q].pc \in {"idle", "deleteKey"}
         /\ \/ EndView(q) \/ UpdateOrganizationMemberRole(q) \/ DeleteSessionsByUserID(q)
            \/ CreateOrganizationInvite(q) \/ RevokeOrganizationInvite(q) \/ MintForInvite(q)
            \/ CreateAPIKey(q) \/ DeleteAPIKey(q) \/ CutShort(q)
            => req'[q] = Idle
  <1>1. Proper(req[q])
    BY DEF BaseInv
  <1>2. req[q] # Idle
    BY DEF Proceed, CutShort, AddOwner, SetProjectTenantID, EndView, UpdateOrganizationMemberRole,
           ListOrganizationMembers, RemoveOrganizationMember, DeleteAPIKeysByUserID,
           DeleteSessionsByUserID, CreateOrganizationInvite, RevokeOrganizationInvite, Join,
           MarkInviteAccepted, MintForInvite, CreateAPIKey, ListAPIKeysForProject, DeleteAPIKey,
           At, Idle
  <1> DEFINE Ends == req'[q] = Idle /\ \A p \in Requests : p # q => req'[p] = req[p]
             Goes(pc) == req'[q].pc = pc /\ \A p \in Requests : p # q => req'[p] = req[p]
  <1>4. End(q) => Ends
    BY EndEffect
  <1>5. \A pc \in Steps : Goto(q, pc) => Goes(pc)
    BY GotoEffect
  <1>6. /\ AddOwner(q) => Goes("setTenant")
        /\ DeleteAPIKeysByUserID(q) => Goes("deleteSessions")
        /\ Join(q) => Goes("mark")
        /\ MarkInviteAccepted(q) => Ends \/ Goes("mintForInvite")
    BY <1>4, <1>5 DEF AddOwner, DeleteAPIKeysByUserID, Join, MarkInviteAccepted, Steps
  <1>7. SetProjectTenantID(q) => Ends \/ \E pc \in OfTeam : Goes(pc)
    <2>1. SetProjectTenantID(q) => req[q].op \in OfTeam
      BY <1>1 DEF SetProjectTenantID, At, Proper
    <2> QED
      BY <2>1, SetTenantEffect
  <1>8. /\ ListOrganizationMembers(q) => Ends \/ Goes("remove")
        /\ RemoveOrganizationMember(q) => Ends \/ Goes("deleteKeys")
        /\ ListAPIKeysForProject(q) => Ends \/ Goes("deleteKey")
    <2>1. Idle.pc = "idle"
      BY DEF Idle
    <2> QED
      BY <2>1, ReadEffect DEF Moves
  <1>9. \/ EndView(q) \/ UpdateOrganizationMemberRole(q) \/ DeleteSessionsByUserID(q)
        \/ CreateOrganizationInvite(q) \/ RevokeOrganizationInvite(q) \/ MintForInvite(q)
        \/ CreateAPIKey(q) \/ DeleteAPIKey(q) \/ CutShort(q)
        => Ends
    BY <1>4 DEF EndView, UpdateOrganizationMemberRole, DeleteSessionsByUserID,
                CreateOrganizationInvite, RevokeOrganizationInvite, MintForInvite, CreateAPIKey,
                DeleteAPIKey, CutShort
  <1>10. Idle.pc = "idle"
    BY DEF Idle
  <1> QED
    BY <1>2, <1>6, <1>7, <1>8, <1>9, <1>10 DEF Proceed

\* The same, read backwards.
LEMMA WaysIn ==
  ASSUME BaseInv, NEW q \in Requests, Proceed(q) \/ CutShort(q)
  PROVE  /\ req'[q].pc = "changeRole" => SetProjectTenantID(q)
         /\ req'[q].pc = "remove" => ListOrganizationMembers(q)
         /\ req'[q].pc = "deleteKey" => ListAPIKeysForProject(q)
         /\ req'[q].pc = "mark" => Join(q)
         /\ req'[q].pc = "mintForInvite" => MarkInviteAccepted(q)
         /\ req'[q].pc # "mint"
  <1>1. Idle.pc = "idle"
    BY DEF Idle
  <1> QED
    BY <1>1, WaysOut DEF Proceed, OfTeam

\* A request that changes is the one that takes the step.
LEMMA WhoSteps ==
  ASSUME BaseInv, [Next]_vars, NEW p \in Requests, req'[p] # req[p]
  PROVE  Arrives(p) \/ Proceed(p) \/ CutShort(p)
  <1>1. ASSUME NEW q \in Requests, Arrive(q) PROVE q = p /\ Arrives(p)
    BY <1>1, ArriveEffect DEF Arrives
  <1>2. ASSUME NEW q \in Requests, Proceed(q) \/ CutShort(q) PROVE q = p
    BY <1>2, WaysOut
  <1> QED
    BY <1>1, <1>2 DEF Next, Expire, HandleSignin, SessionExpires, vars

-----------------------------------------------------------------------------
(* One key per invite.                                                     *)

\* A step that mints for no invite, and by which nobody comes to mint for one.
LEMMA MintsSame ==
  ASSUME BaseInv, MintsOnce, UNCHANGED minted,
         \A i \in Invites : invite[i].state = "accepted" => invite'[i].state = "accepted",
         \A p \in Requests : req'[p].pc = "mintForInvite" => req'[p] = req[p]
  PROVE  MintsOnce'
  BY DEF MintsOnce, Minting, At

LEMMA InitMints == Init => MintsOnce
  BY DEF Init, MintsOnce, Minting, At, Idle

LEMMA NextMints == BaseInv /\ MintsOnce /\ [Next]_vars => MintsOnce'
  <1> SUFFICES ASSUME BaseInv, MintsOnce, [Next]_vars PROVE MintsOnce'
    OBVIOUS
  <1>0. /\ TypeOK /\ req \in [Requests -> RequestType]
        /\ \A q \in Requests : Proper(req[q])
    BY DEF BaseInv, TypeOK
  <1>1. ASSUME NEW q \in Requests, Arrive(q) PROVE MintsOnce'
    <2>1. Arrives(q)
      BY <1>1, ArriveEffect
    <2> QED
      BY <2>1, MintsSame DEF OfTeam, Arrives
  <1>2. ASSUME NEW q \in Requests, MarkInviteAccepted(q) PROVE MintsOnce'
    <2> DEFINE i == req[q].target
    <2>0. i \in Invites
      BY <1>0, <1>2 DEF MarkInviteAccepted, At, Proper, OfTeam
    <2>1. CASE Claimable(i)
      <3>1. /\ UNCHANGED minted
            /\ \A j \in Invites : invite'[j].state = IF j = i THEN "accepted" ELSE invite[j].state
        BY <1>0, <1>2, <2>0, <2>1 DEF MarkInviteAccepted, NoInvite, TypeOK, InviteType
      <3>2. /\ \A p \in Requests : p # q => req'[p] = req[p]
            /\ req'[q].pc = "mintForInvite" /\ req'[q].target = i
        BY <1>0, <1>2, <2>1, GotoEffect DEF MarkInviteAccepted, Steps
      <3>3. invite[i].state # "accepted" /\ minted[i] = 0
            /\ \A p \in Requests : ~Minting(p, i)
        BY <2>0, <2>1 DEF Claimable, MintsOnce
      <3> QED
        BY <3>1, <3>2, <3>3, <2>0 DEF MintsOnce, Minting, At
    <2>2. CASE ~Claimable(i)
      BY <1>0, <1>2, <2>2, EndEffect, MintsSame DEF MarkInviteAccepted, Idle
    <2> QED
      BY <2>1, <2>2
  <1>3. ASSUME NEW q \in Requests, MintForInvite(q) PROVE MintsOnce'
    <2> DEFINE i == req[q].target
    <2>0. i \in Invites /\ Minting(q, i)
      BY <1>0, <1>3 DEF MintForInvite, At, Proper, OfTeam, Minting
    <2>1. minted[i] = 0 /\ invite[i].state = "accepted"
          /\ \A p \in Requests : Minting(p, i) => p = q
      BY <2>0 DEF MintsOnce
    <2>2. /\ UNCHANGED invite
          /\ \A j \in Invites : minted'[j] = IF j = i THEN 1 ELSE minted[j]
      BY <1>0, <1>3, <2>1 DEF MintForInvite, TypeOK
    <2>3. req'[q] = Idle /\ \A p \in Requests : p # q => req'[p] = req[p]
      BY <1>3, EndEffect DEF MintForInvite
    <2> QED
      BY <2>0, <2>1, <2>2, <2>3 DEF MintsOnce, Minting, At, Idle
  <1>4. ASSUME NEW q \in Requests, RevokeOrganizationInvite(q) \/ CreateOrganizationInvite(q)
        PROVE  MintsOnce'
    <2>1. /\ UNCHANGED minted
          /\ \A j \in Invites : invite[j].state = "accepted" => invite'[j].state = "accepted"
      BY <1>0, <1>4 DEF RevokeOrganizationInvite, CreateOrganizationInvite, TypeOK, InviteType
    <2> QED
      BY <1>4, <2>1, EndEffect, MintsSame
         DEF RevokeOrganizationInvite, CreateOrganizationInvite, Idle
  <1>5. ASSUME NEW i \in Invites, Expire(i) PROVE MintsOnce'
    <2>1. \A j \in Invites : invite[j].state = "accepted" => invite'[j].state = "accepted"
      BY <1>0, <1>5 DEF Expire, TypeOK, InviteType
    <2> QED
      BY <1>5, <2>1, MintsSame DEF Expire
  <1>6. ASSUME NEW q \in Requests,
               \/ EndView(q) \/ UpdateOrganizationMemberRole(q) \/ DeleteSessionsByUserID(q)
               \/ CreateAPIKey(q) \/ DeleteAPIKey(q) \/ CutShort(q)
        PROVE  MintsOnce'
    BY <1>6, EndEffect, MintsSame
       DEF EndView, UpdateOrganizationMemberRole, DeleteSessionsByUserID, CreateAPIKey,
           DeleteAPIKey, CutShort, Idle
  <1>7. ASSUME NEW q \in Requests,
               \/ AddOwner(q) \/ SetProjectTenantID(q) \/ ListOrganizationMembers(q)
               \/ RemoveOrganizationMember(q) \/ DeleteAPIKeysByUserID(q) \/ Join(q)
               \/ ListAPIKeysForProject(q)
        PROVE  MintsOnce'
    <2>1. UNCHANGED <<minted, invite>>
      BY <1>7 DEF AddOwner, SetProjectTenantID, ListOrganizationMembers,
         RemoveOrganizationMember, DeleteAPIKeysByUserID, Join, ListAPIKeysForProject
    <2>2. /\ req'[q].pc \in OfTeam \union {"idle", "setTenant", "remove", "deleteKeys",
                                          "deleteSessions", "mark", "deleteKey"}
          /\ \A p \in Requests : p # q => req'[p] = req[p]
      <3>1. Proceed(q) /\ Idle.pc = "idle"
        BY <1>7 DEF Proceed, Idle
      <3> QED
        BY <1>7, <3>1, WaysOut DEF OfTeam
    <2>3. \A p \in Requests : req'[p].pc = "mintForInvite" => req'[p] = req[p]
      BY <2>2 DEF OfTeam
    <2> QED
      BY <2>1, <2>3, MintsSame
  <1>8. CASE HandleSignin \/ SessionExpires \/ UNCHANGED vars
    BY <1>8, MintsSame DEF HandleSignin, SessionExpires, vars
  <1> QED
    BY <1>1, <1>2, <1>3, <1>4, <1>5, <1>6, <1>7, <1>8 DEF Next, Proceed

\* HandleAcceptInvite mints one key per invite at most: whatever clicks overlap,
\* whatever is revoked or expires in between, and however many statements fail.
THEOREM InvitesMintOnce == Spec => []OneKeyPerInvite
  <1>1. Init => BaseInv /\ MintsOnce
    BY InitBase, InitMints
  <1>2. (BaseInv /\ MintsOnce) /\ [Next]_vars => (BaseInv /\ MintsOnce)'
    BY NextBase, NextMints
  <1>3. MintsOnce => OneKeyPerInvite
    BY DEF MintsOnce, OneKeyPerInvite
  <1> QED
    BY <1>1, <1>2, <1>3, PTL DEF Spec

-----------------------------------------------------------------------------
(* The last admin and the last key.                                        *)

LEMMA NextLast == LastInv /\ [Next]_vars => LastInv'
  <1> SUFFICES ASSUME LastInv, [Next]_vars PROVE LastInv'
    OBVIOUS
  <1>0. BaseInv /\ BaseInv'
    BY NextBase DEF LastInv
  <1>1. ASSUME NEW p \in Requests PROVE Grounded(req'[p])
    <2>1. CASE req'[p] = req[p]
      BY <2>1 DEF LastInv
    <2>2. CASE Arrives(p)
      BY <2>2 DEF Arrives
    <2>3. CASE Proceed(p) \/ CutShort(p)
      <3>1. CASE req'[p].pc = "changeRole"
        <4>1. SetProjectTenantID(p) /\ req'[p] # Idle
          BY <1>0, <2>3, <3>1, WaysIn DEF Idle
        <4>2. /\ member[req[p].by] = "admin" /\ req[p].op = "changeRole"
              /\ req'[p].target = req[p].target /\ req'[p].seen = Admins
          BY <1>0, <3>1, <4>1, SetTenantEffect DEF Grounds
        <4>3. req[p].by \in Users /\ req[p].by # req[p].target
          BY <1>0, <4>1, <4>2 DEF BaseInv, Proper, SetProjectTenantID, At
        <4> QED
          BY <3>1, <4>2, <4>3 DEF Grounded, Admins
      <3>2. CASE req'[p].pc = "remove"
        <4>1. ListOrganizationMembers(p)
          BY <1>0, <2>3, <3>2, WaysIn
        <4>2. /\ Admins # {req[p].target}
              /\ req'[p].seen = Admins /\ req'[p].target = req[p].target
          BY <1>0, <3>2, <4>1, ReadEffect DEF Moves, LastAdmin, Idle
        <4> QED
          BY <3>2, <4>2 DEF Grounded
      <3>3. CASE req'[p].pc = "deleteKey"
        <4>1. ListAPIKeysForProject(p)
          BY <1>0, <2>3, <3>3, WaysIn
        <4>2. ~LastKey /\ req'[p].seen = ListedKeys /\ req'[p].target = req[p].target
          BY <1>0, <3>3, <4>1, ReadEffect DEF Moves, Idle
        <4>5. ~(ListedKeys \subseteq {req[p].target})
          <5> SUFFICES ASSUME ListedKeys \subseteq {req[p].target} PROVE FALSE
            OBVIOUS
          <5>1. IsFiniteSet({req[p].target}) /\ Cardinality({req[p].target}) = 1
            BY FS_Singleton
          <5>2. Cardinality(ListedKeys) <= 1
            BY <5>1, FS_Subset
          <5> QED
            BY <4>2, <5>2 DEF LastKey
        <4> QED
          BY <3>3, <4>2, <4>5 DEF Grounded
      <3> QED
        BY <3>1, <3>2, <3>3 DEF Grounded
    <2> QED
      BY <1>0, <2>1, <2>2, <2>3, WhoSteps
  <1> QED
    BY <1>0, <1>1 DEF LastInv

\* A request that is about to take a role, a membership or a key has seen that
\* another admin, or another key, would be left.
THEOREM LastInvariant == Spec => []LastInv
  <1>1. Init => LastInv
    <2>1. Grounded(Idle)
      BY DEF Grounded, Idle
    <2> QED
      BY <2>1, InitBase DEF LastInv, Init
  <1>2. LastInv /\ [Next]_vars => LastInv'
    BY NextLast
  <1> QED
    BY <1>1, <1>2, PTL DEF Spec

\* However removals, changes of role and invites overlap, an organisation loses its
\* last admin only to an invite that the admin accepts, or to a removal or a change of
\* role that acts upon a set of admins which is no longer the one it has seen.
THEOREM LastAdminIsKept == Spec => LastAdminStays
  <1> DEFINE Overtaken(q) == \/ Join(q)
                             \/ /\ RemoveOrganizationMember(q) \/ UpdateOrganizationMemberRole(q)
                                /\ req[q].seen # Admins
  <1>1. ASSUME LastInv, [Next]_vars
        PROVE  [Admins # {} => Admins' # {} \/ \E q \in Requests : Overtaken(q)]_vars
    <2> SUFFICES ASSUME NEW a \in Admins, ~\E q \in Requests : Overtaken(q)
                 PROVE  Admins' # {}
      OBVIOUS
    <2>0. BaseInv /\ TypeOK /\ a \in Users
      BY <1>1 DEF LastInv, BaseInv, Admins
    <2>1. ASSUME NEW q \in Requests, UpdateOrganizationMemberRole(q) PROVE Admins' # {}
      <3>1. Admins # {req[q].target}
        BY <1>1, <2>1 DEF LastInv, Grounded, UpdateOrganizationMemberRole, At
      <3>2. PICK b \in Admins : b # req[q].target
        BY <3>1
      <3> QED
        BY <2>0, <2>1, <3>2 DEF UpdateOrganizationMemberRole, TypeOK, Admins
    <2>2. ASSUME NEW q \in Requests, RemoveOrganizationMember(q) PROVE Admins' # {}
      <3>1. Admins # {req[q].target}
        BY <1>1, <2>2 DEF LastInv, Grounded, RemoveOrganizationMember, At
      <3>2. PICK b \in Admins : b # req[q].target
        BY <3>1
      <3> QED
        BY <2>0, <2>2, <3>2 DEF RemoveOrganizationMember, TypeOK, Admins
    <2>3. ASSUME NEW q \in Requests, AddOwner(q) PROVE Admins' # {}
      BY <2>0, <2>3, ConstantsAssumption DEF AddOwner, TypeOK, Admins
    <2>4. ASSUME NEW q \in Requests, Arrive(q) PROVE UNCHANGED member
      BY <2>0, <2>4, ArriveEffect DEF Arrives
    <2>5. CASE UNCHANGED member
      BY <2>5 DEF Admins
    <2> QED
      BY <1>1, <2>1, <2>2, <2>3, <2>4, <2>5
         DEF Next, Proceed, CutShort, SetProjectTenantID, EndView, ListOrganizationMembers,
             DeleteAPIKeysByUserID, DeleteSessionsByUserID, CreateOrganizationInvite,
             RevokeOrganizationInvite, MarkInviteAccepted, MintForInvite, CreateAPIKey,
             ListAPIKeysForProject, DeleteAPIKey, Expire, HandleSignin, SessionExpires, vars
  <1>2. LastInv /\ [Next]_vars
        => [Admins # {} => Admins' # {} \/ \E q \in Requests : Overtaken(q)]_vars
    BY <1>1
  <1> QED
    BY <1>2, LastInvariant, PTL DEF Spec, LastAdminStays

\* However revocations, removals and mints overlap, a project loses the last key that
\* it can list only with the member who holds it, or to a revocation that acts upon a
\* set of keys which is no longer the one it has counted.
THEOREM LastKeyIsKept == Spec => LastKeyStays
  <1> DEFINE Taken(q) == \/ DeleteAPIKeysByUserID(q)
                         \/ DeleteAPIKey(q) /\ req[q].seen # ListedKeys
  <1>1. ASSUME LastInv, [Next]_vars
        PROVE  [ListedKeys # {} => ListedKeys' # {} \/ \E q \in Requests : Taken(q)]_vars
    <2> SUFFICES ASSUME NEW k \in ListedKeys, ~\E q \in Requests : Taken(q)
                 PROVE  ListedKeys' # {}
      OBVIOUS
    <2>0. BaseInv /\ TypeOK /\ k \in Keys
      BY <1>1 DEF LastInv, BaseInv, ListedKeys, LiveKeys
    <2>1. ASSUME NEW q \in Requests, DeleteAPIKey(q) PROVE ListedKeys' # {}
      <3>1. ~(ListedKeys \subseteq {req[q].target})
        BY <1>1, <2>1 DEF LastInv, Grounded, DeleteAPIKey, At
      <3>2. PICK l \in ListedKeys : l # req[q].target
        BY <3>1
      <3> QED
        BY <2>0, <2>1, <3>2 DEF DeleteAPIKey, Gone, ListedKeys, LiveKeys, Live
    <2>2. ASSUME NEW u, NEW role, NEW source, Mint(u, role, source) PROVE ListedKeys' # {}
      BY <2>0, <2>2 DEF Mint, TypeOK, ListedKeys, LiveKeys, Live
    <2>3. ASSUME NEW q \in Requests, Arrive(q) PROVE UNCHANGED key
      BY <2>0, <2>3, ArriveEffect DEF Arrives
    <2>4. CASE UNCHANGED key
      BY <2>4 DEF ListedKeys, LiveKeys, Live
    <2> QED
      BY <1>1, <2>1, <2>2, <2>3, <2>4
         DEF Next, Proceed, CutShort, AddOwner, SetProjectTenantID, EndView,
             UpdateOrganizationMemberRole, ListOrganizationMembers, RemoveOrganizationMember,
             DeleteSessionsByUserID, CreateOrganizationInvite, RevokeOrganizationInvite, Join,
             MarkInviteAccepted, MintForInvite, CreateAPIKey, ListAPIKeysForProject, Expire,
             HandleSignin, SessionExpires, vars
  <1>2. LastInv /\ [Next]_vars
        => [ListedKeys # {} => ListedKeys' # {} \/ \E q \in Requests : Taken(q)]_vars
    BY <1>1
  <1> QED
    BY <1>2, LastInvariant, PTL DEF Spec, LastKeyStays

-----------------------------------------------------------------------------
(* Keys and members.                                                       *)

LEMMA InitKeys ==
  Init => OwnerFirst /\ NobodysKeys /\ SigninKeys /\ MintsForMembers /\ KeysGoWithTheMember
  <1> SUFFICES ASSUME Init
               PROVE  OwnerFirst /\ NobodysKeys /\ SigninKeys /\ MintsForMembers /\ KeysGoWithTheMember
    OBVIOUS
  <1>1. \A k \in LiveKeys : key[k].user \in FirstKeys /\ key[k].source = "manual"
    BY DEF Init, LiveKeys, Live, Unused
  <1>2. tenant => member[Owner] = "admin"
    BY ConstantsAssumption DEF Init
  <1>3. OwnerFirst /\ NobodysKeys /\ SigninKeys /\ MintsForMembers
    <2>1. \A q \in Requests : req[q] = Idle
      BY DEF Init
    <2>2. Idle.pc = "idle" /\ Idle.by = NoUser
      BY DEF Idle
    <2>3. OwnerFirst
      <3>1. \A i \in Invites : invite[i].state = "unused"
        BY DEF Init, NoInvite
      <3> QED
        BY <1>1, <2>1, <2>2, <3>1, ConstantsAssumption DEF OwnerFirst, At
    <2>4. NobodysKeys /\ SigninKeys
      BY <1>1 DEF NobodysKeys, SigninKeys
    <2>5. MintsForMembers
      BY <2>1, <2>2 DEF MintsForMembers, MintingSteps
    <2> QED
      BY <2>3, <2>4, <2>5
  <1>4. KeysGoWithTheMember
    BY <1>1, <1>2, ConstantsAssumption DEF KeysGoWithTheMember, None
  <1> QED
    BY <1>3, <1>4

\* What minting and deleting do to the keys in use.
LEMMA MintEffect ==
  ASSUME BaseInv, NEW u, NEW role, NEW source, Mint(u, role, source)
  PROVE  \A k \in LiveKeys' :
            \/ k \in LiveKeys /\ key'[k] = key[k]
            \/ key'[k].user = u /\ key'[k].role = role /\ key'[k].source = source
  BY DEF BaseInv, TypeOK, Mint, LiveKeys, Live

LEMMA GoneEffect ==
  ASSUME NEW ks, key' = Gone(ks)
  PROVE  \A k \in LiveKeys' : k \in LiveKeys \ ks /\ key'[k] = key[k]
  BY DEF Gone, Unused, LiveKeys, Live

\* Only a mint puts another key to use, for whoever asked, or a sign-in, for the owner.
LEMMA KeyEffect ==
  ASSUME BaseInv, [Next]_vars, NEW k \in LiveKeys'
  PROVE  \/ k \in LiveKeys /\ key'[k] = key[k]
         \/ \E q \in Requests : /\ MintForInvite(q) \/ CreateAPIKey(q)
                               /\ key'[k].user = req[q].by /\ key'[k].source = "manual"
         \/ key'[k].user = Owner /\ key'[k].role = Inherited /\ key'[k].source = "signin"
  <1>1. ASSUME UNCHANGED key PROVE k \in LiveKeys /\ key'[k] = key[k]
    BY <1>1 DEF LiveKeys, Live
  <1>2. ASSUME NEW q \in Requests, Arrive(q) PROVE UNCHANGED key
    BY <1>2, ArriveEffect DEF Arrives
  <1>3. ASSUME NEW q \in Requests, MintForInvite(q)
        PROVE  \/ k \in LiveKeys /\ key'[k] = key[k]
               \/ key'[k].user = req[q].by /\ key'[k].source = "manual"
    BY <1>3, MintEffect DEF MintForInvite
  <1>4. ASSUME NEW q \in Requests, CreateAPIKey(q)
        PROVE  \/ k \in LiveKeys /\ key'[k] = key[k]
               \/ key'[k].user = req[q].by /\ key'[k].source = "manual"
    BY <1>4, MintEffect DEF CreateAPIKey
  <1>5. ASSUME NEW q \in Requests, DeleteAPIKeysByUserID(q) \/ DeleteAPIKey(q)
        PROVE  k \in LiveKeys /\ key'[k] = key[k]
    BY <1>1, <1>5, GoneEffect DEF DeleteAPIKeysByUserID, DeleteAPIKey
  <1>6. ASSUME HandleSignin
        PROVE  \/ k \in LiveKeys /\ key'[k] = key[k]
               \/ key'[k].user = Owner /\ key'[k].role = Inherited /\ key'[k].source = "signin"
    BY <1>6, MintEffect DEF HandleSignin
  <1> QED
    BY <1>1, <1>2, <1>3, <1>4, <1>5, <1>6
       DEF Next, Proceed, CutShort, AddOwner, SetProjectTenantID, EndView,
           UpdateOrganizationMemberRole, ListOrganizationMembers, RemoveOrganizationMember,
           DeleteSessionsByUserID, CreateOrganizationInvite, RevokeOrganizationInvite, Join,
           MarkInviteAccepted, ListAPIKeysForProject, Expire, SessionExpires, vars

\* Only RemoveOrganizationMember ends a membership.
LEMMA MemberEffect ==
  ASSUME BaseInv, [Next]_vars, NEW u \in Users, member[u] # None
  PROVE  member'[u] # None \/ \E q \in Requests : RemoveOrganizationMember(q) /\ req[q].target = u
  <1>0. TypeOK /\ \A q \in Requests : Proper(req[q])
    BY DEF BaseInv
  <1>1. ASSUME NEW q \in Requests, Arrive(q) PROVE UNCHANGED member
    BY <1>1, ArriveEffect DEF Arrives
  <1>2. ASSUME NEW q \in Requests, AddOwner(q) PROVE member'[u] # None
    BY <1>0, <1>2 DEF AddOwner, TypeOK, None
  <1>3. ASSUME NEW q \in Requests, UpdateOrganizationMemberRole(q) PROVE member'[u] # None
    <2>1. req[q].role \in Roles
      BY <1>0, <1>3 DEF UpdateOrganizationMemberRole, At, Proper, OfTeam
    <2> QED
      BY <1>0, <1>3, <2>1 DEF UpdateOrganizationMemberRole, TypeOK, None, Roles
  <1>4. ASSUME NEW q \in Requests, Join(q) PROVE member'[u] # None
    <2>1. req[q].role \in Roles
      BY <1>0, <1>4 DEF Join, At, Proper, OfTeam
    <2> QED
      BY <1>0, <1>4, <2>1 DEF Join, TypeOK, None, Roles
  <1>5. ASSUME NEW q \in Requests, RemoveOrganizationMember(q), req[q].target # u
        PROVE  member'[u] # None
    BY <1>0, <1>5 DEF RemoveOrganizationMember, TypeOK
  <1> QED
    BY <1>1, <1>2, <1>3, <1>4, <1>5
       DEF Next, Proceed, CutShort, SetProjectTenantID, EndView, ListOrganizationMembers,
           DeleteAPIKeysByUserID, DeleteSessionsByUserID, CreateOrganizationInvite,
           RevokeOrganizationInvite, MarkInviteAccepted, MintForInvite, CreateAPIKey,
           ListAPIKeysForProject, DeleteAPIKey, Expire, HandleSignin, SessionExpires, vars

\* Only SetProjectTenantID gives a project its organisation, and nothing takes it
\* away; an error is never forgotten.
LEMMA TenantEffect ==
  ASSUME BaseInv, [Next]_vars
  PROVE  /\ tenant => tenant'
         /\ ~tenant /\ tenant' => \E q \in Requests : SetProjectTenantID(q)
         /\ errors' = 0 => errors = 0
  <1>1. ASSUME NEW q \in Requests, Arrive(q) PROVE UNCHANGED <<tenant, errors>>
    BY <1>1, ArriveEffect DEF Arrives
  <1>2. errors \in Nat
    BY ConstantsAssumption DEF BaseInv, TypeOK
  <1>3. errors' = errors \/ errors' = errors + 1
    BY <1>1, Zenon
       DEF Next, Proceed, CutShort, AddOwner, SetProjectTenantID, EndView,
           UpdateOrganizationMemberRole, ListOrganizationMembers, RemoveOrganizationMember,
           DeleteAPIKeysByUserID, DeleteSessionsByUserID, CreateOrganizationInvite,
           RevokeOrganizationInvite, Join, MarkInviteAccepted, MintForInvite, CreateAPIKey,
           ListAPIKeysForProject, DeleteAPIKey, Expire, HandleSignin, SessionExpires, vars
  <1>4. UNCHANGED tenant \/ (tenant' = TRUE /\ \E q \in Requests : SetProjectTenantID(q))
    <2>1. ASSUME NEW q \in Requests, Proceed(q) \/ CutShort(q), ~SetProjectTenantID(q)
          PROVE  UNCHANGED tenant
      BY <2>1, Zenon
         DEF Proceed, CutShort, AddOwner, EndView,
             UpdateOrganizationMemberRole, ListOrganizationMembers, RemoveOrganizationMember,
             DeleteAPIKeysByUserID, DeleteSessionsByUserID, CreateOrganizationInvite,
             RevokeOrganizationInvite, Join, MarkInviteAccepted, MintForInvite, CreateAPIKey,
             ListAPIKeysForProject, DeleteAPIKey
    <2>2. ASSUME NEW q \in Requests, SetProjectTenantID(q) PROVE tenant' = TRUE
      BY <2>2, Zenon DEF SetProjectTenantID
    <2>3. \/ (\E i \in Invites : Expire(i)) \/ HandleSignin
          \/ SessionExpires \/ UNCHANGED vars
          => UNCHANGED tenant
      BY Zenon DEF Expire, HandleSignin, SessionExpires, vars
    <2> QED
      BY <1>1, <2>1, <2>2, <2>3, Zenon DEF Next
  <1>5. errors' = 0 => errors = 0
    BY <1>2, <1>3
  <1>6. tenant \in BOOLEAN /\ tenant' \in BOOLEAN
    BY NextBase DEF BaseInv, TypeOK
  <1>7. tenant => tenant'
    BY <1>4, <1>6
  <1>8. ~tenant /\ tenant' => \E q \in Requests : SetProjectTenantID(q)
    BY <1>4, <1>6
  <1> QED
    BY <1>5, <1>7, <1>8, Zenon

\* Only the deletion of a member's keys changes who has been overtaken by one.
LEMMA RacedEffect ==
  ASSUME BaseInv, [Next]_vars
  PROVE  \/ UNCHANGED raced
         \/ \E q \in Requests :
               /\ DeleteAPIKeysByUserID(q) /\ key' = Gone(KeysOf(req[q].target))
               /\ raced' = IF MintUnderWay(req[q].target) THEN raced \union {req[q].target}
                           ELSE raced \ {req[q].target}
  <1>1. ASSUME NEW q \in Requests, Arrive(q) PROVE UNCHANGED raced
    BY <1>1, ArriveEffect DEF Arrives
  <1>2. ASSUME NEW q \in Requests, DeleteAPIKeysByUserID(q)
        PROVE  \/ UNCHANGED raced
               \/ /\ key' = Gone(KeysOf(req[q].target))
                  /\ raced' = IF MintUnderWay(req[q].target) THEN raced \union {req[q].target}
                              ELSE raced \ {req[q].target}
    BY <1>2 DEF DeleteAPIKeysByUserID
  <1> QED
    BY <1>1, <1>2
       DEF Next, Proceed, CutShort, AddOwner, SetProjectTenantID, EndView,
           UpdateOrganizationMemberRole, ListOrganizationMembers, RemoveOrganizationMember,
           DeleteSessionsByUserID, CreateOrganizationInvite, RevokeOrganizationInvite, Join,
           MarkInviteAccepted, MintForInvite, CreateAPIKey, ListAPIKeysForProject, DeleteAPIKey,
           Expire, HandleSignin, SessionExpires, vars

\* An owner who calls before there is an organisation, through a session or with a
\* key of his own or of nobody, acts as the owner.
LEMMA ActsAsOwner ==
  ASSUME BaseInv, NEW c \in Callers, \A k \in LiveKeys : key[k].user \in {Owner, NoUser}
  PROVE  Acting(c) = Owner
  BY ConstantsAssumption DEF Callers, Acting

LEMMA NextOwnerFirst == BaseInv /\ OwnerFirst /\ [Next]_vars => OwnerFirst'
  <1> SUFFICES ASSUME BaseInv, OwnerFirst, [Next]_vars, ~tenant' PROVE OwnerFirst'
    BY DEF OwnerFirst
  <1>0. ~tenant
    BY TenantEffect, Zenon
  <1>1. /\ \A i \in Invites : invite[i].state = "unused"
        /\ \A k \in LiveKeys : key[k].user \in {Owner, NoUser}
        /\ \A q \in Requests :
              /\ req[q].pc \in {"idle", "addOwner", "setTenant", "mint", "listKeys", "deleteKey"}
              /\ req[q].by \in {Owner, NoUser}
              /\ At(q, "setTenant") => member[Owner] # None
    BY <1>0 DEF OwnerFirst
  <1>2. TypeOK /\ Owner \in Users
    BY ConstantsAssumption DEF BaseInv
  <1>3. ASSUME NEW q \in Requests, Arrive(q) PROVE OwnerFirst'
    <2>1. Arrives(q)
      BY <1>3, ArriveEffect
    <2>2. req'[q].pc \in {"addOwner", "mint", "listKeys"}
      BY <1>0, <1>1, <2>1 DEF Arrives
    <2>3. req'[q].by = Owner
      BY <1>1, <2>1, <2>2, ActsAsOwner DEF Arrives
    <2>4. LiveKeys' = LiveKeys /\ UNCHANGED <<invite, key, member>>
      BY <2>1 DEF Arrives, LiveKeys, Live
    <2> QED
      BY <1>1, <2>1, <2>2, <2>3, <2>4 DEF OwnerFirst, Arrives, At
  <1>4. ASSUME NEW q \in Requests, AddOwner(q) PROVE OwnerFirst'
    <2>1. member'[Owner] = "admin" /\ LiveKeys' = LiveKeys /\ UNCHANGED <<invite, key>>
      BY <1>2, <1>4 DEF AddOwner, TypeOK, LiveKeys, Live
    <2>2. /\ \A p \in Requests : p # q => req'[p] = req[p]
          /\ req'[q].pc = "setTenant" /\ req'[q].by = req[q].by
      BY <1>4, GotoEffect DEF AddOwner, Steps
    <2> QED
      BY <1>1, <2>1, <2>2 DEF OwnerFirst, At, None
  <1>5. ASSUME NEW q \in Requests, CreateAPIKey(q) PROVE OwnerFirst'
    <2>1. \A k \in LiveKeys' : key'[k].user \in {Owner, NoUser}
      BY <1>1, <1>5, MintEffect DEF CreateAPIKey
    <2>2. req'[q] = Idle /\ \A p \in Requests : p # q => req'[p] = req[p]
      BY <1>5, EndEffect DEF CreateAPIKey
    <2> QED
      BY <1>1, <1>5, <2>1, <2>2 DEF CreateAPIKey, OwnerFirst, At, Idle
  <1>6. ASSUME NEW q \in Requests, ListAPIKeysForProject(q) PROVE OwnerFirst'
    <2>1. /\ \A p \in Requests : p # q => req'[p] = req[p]
          /\ req'[q] = Idle \/ (req'[q].pc = "deleteKey" /\ req'[q].by = req[q].by)
      BY <1>6, ReadEffect DEF Moves
    <2>2. LiveKeys' = LiveKeys /\ UNCHANGED <<invite, key, member>>
      BY <1>6 DEF ListAPIKeysForProject, LiveKeys, Live
    <2> QED
      BY <1>1, <2>1, <2>2 DEF OwnerFirst, At, Idle
  <1>7. ASSUME NEW q \in Requests, DeleteAPIKey(q) \/ CutShort(q) PROVE OwnerFirst'
    <2>1. \A k \in LiveKeys' : key'[k].user \in {Owner, NoUser}
      <3>1. CASE DeleteAPIKey(q)
        BY <1>1, <3>1, GoneEffect DEF DeleteAPIKey
      <3>2. CASE UNCHANGED key
        BY <1>1, <3>2 DEF LiveKeys, Live
      <3> QED
        BY <1>7, <3>1, <3>2 DEF CutShort
    <2>2. req'[q] = Idle /\ \A p \in Requests : p # q => req'[p] = req[p]
      BY <1>7, EndEffect DEF DeleteAPIKey, CutShort
    <2>3. UNCHANGED <<invite, member>>
      BY <1>7 DEF DeleteAPIKey, CutShort
    <2> QED
      BY <1>1, <2>1, <2>2, <2>3 DEF OwnerFirst, At, Idle
  <1>8. ASSUME NEW q \in Requests,
               \/ SetProjectTenantID(q) \/ EndView(q) \/ UpdateOrganizationMemberRole(q)
               \/ ListOrganizationMembers(q) \/ RemoveOrganizationMember(q)
               \/ DeleteAPIKeysByUserID(q) \/ DeleteSessionsByUserID(q)
               \/ CreateOrganizationInvite(q) \/ RevokeOrganizationInvite(q)
               \/ Join(q) \/ MarkInviteAccepted(q) \/ MintForInvite(q)
        PROVE  FALSE
    <2>1. ~SetProjectTenantID(q)
      BY Zenon DEF SetProjectTenantID
    <2> QED
      BY <1>1, <1>8, <2>1
         DEF EndView, UpdateOrganizationMemberRole, ListOrganizationMembers,
             RemoveOrganizationMember, DeleteAPIKeysByUserID, DeleteSessionsByUserID,
             CreateOrganizationInvite, RevokeOrganizationInvite, Join, MarkInviteAccepted,
             MintForInvite, At
  <1>9. ASSUME NEW i \in Invites, Expire(i) PROVE FALSE
    BY <1>1, <1>9 DEF Expire
  <1>10. CASE HandleSignin \/ SessionExpires \/ UNCHANGED vars
    <2>1. /\ \A k \in LiveKeys' : key'[k].user \in {Owner, NoUser}
          /\ UNCHANGED <<invite, member, req>>
      <3>1. CASE HandleSignin
        BY <1>1, <3>1, MintEffect DEF HandleSignin
      <3>2. CASE SessionExpires \/ UNCHANGED vars
        BY <1>1, <3>2 DEF SessionExpires, vars, LiveKeys, Live
      <3> QED
        BY <1>10, <3>1, <3>2
    <2> QED
      BY <1>1, <2>1 DEF OwnerFirst, At
  <1> QED
    BY <1>3, <1>4, <1>5, <1>6, <1>7, <1>8, <1>9, <1>10 DEF Next, Proceed

LEMMA NextNobodysKeys == BaseInv /\ NobodysKeys /\ [Next]_vars => NobodysKeys'
  <1> SUFFICES ASSUME BaseInv, NobodysKeys, [Next]_vars, NEW k \in LiveKeys',
                      key'[k].user = NoUser
               PROVE  NoUser \in FirstKeys
    BY DEF NobodysKeys
  <1>1. ASSUME NEW q \in Requests, MintForInvite(q) \/ CreateAPIKey(q) PROVE req[q].by # NoUser
    BY <1>1, ConstantsAssumption DEF MintForInvite, CreateAPIKey, BaseInv, Proper, At, OfTeam
  <1> QED
    BY <1>1, KeyEffect, ConstantsAssumption DEF NobodysKeys

LEMMA NextSigninKeys == BaseInv /\ SigninKeys /\ [Next]_vars => SigninKeys'
  <1> SUFFICES ASSUME BaseInv, SigninKeys, [Next]_vars, NEW k \in LiveKeys',
                      key'[k].source = "signin"
               PROVE  key'[k].user = Owner /\ key'[k].role = Inherited
    BY DEF SigninKeys
  <1> QED
    BY KeyEffect DEF SigninKeys

\* Who is accounted for after a step.
StaysSo(u) ==
    \/ u \in Users /\ member'[u] # None
    \/ NoUser \in FirstKeys /\ u \in {NoUser, Owner}
    \/ \E q \in Requests : req'[q].pc = "deleteKeys" /\ req'[q].target = u
    \/ u \in raced'

\* Whoever may be accounted for before a step may be after it, unless his keys are
\* deleted and none is on its way: a member who is removed has his keys deleted next,
\* and when they are, a mint under way makes him known to have been overtaken.
LEMMA StaysAccounted ==
  ASSUME BaseInv, [Next]_vars, errors' = 0, NEW u \in Users \union {NoUser}, Accounted(u)
  PROVE  \/ StaysSo(u)
         \/ \E q \in Requests : /\ DeleteAPIKeysByUserID(q) /\ req[q].target = u
                               /\ key' = Gone(KeysOf(u)) /\ ~MintUnderWay(u)
  <1>0. /\ TypeOK /\ errors \in Nat /\ errors = 0
        /\ \A q \in Requests : Proper(req[q])
    BY ConstantsAssumption, TenantEffect DEF BaseInv, TypeOK
  <1>1. CASE u \in Users /\ member[u] # None
    <2>1. ASSUME NEW q \in Requests, RemoveOrganizationMember(q), req[q].target = u
          PROVE  StaysSo(u)
      <3>1. req'[q].pc = "deleteKeys" /\ req'[q].target = u
        BY <1>1, <2>1, ReadEffect DEF Moves, Idle
      <3> QED
        BY <3>1 DEF StaysSo, Accounted, At
    <2>2. CASE member'[u] # None
      BY <1>1, <2>2 DEF StaysSo, Accounted
    <2> QED
      BY <1>1, <2>1, <2>2, MemberEffect
  <1>2. CASE NoUser \in FirstKeys /\ u \in {NoUser, Owner}
    BY <1>2 DEF StaysSo, Accounted
  <1>3. ASSUME NEW q \in Requests, At(q, "deleteKeys"), req[q].target = u
        PROVE  \/ StaysSo(u)
               \/ /\ DeleteAPIKeysByUserID(q) /\ req[q].target = u
                  /\ key' = Gone(KeysOf(u)) /\ ~MintUnderWay(u)
    <2>1. CASE req'[q] = req[q]
      BY <1>3, <2>1 DEF StaysSo, Accounted, At
    <2>2. CASE DeleteAPIKeysByUserID(q)
      <3>1. errors' # errors + 1
        BY <1>0
      <3>2. /\ key' = Gone(KeysOf(u))
            /\ raced' = IF MintUnderWay(u) THEN raced \union {u} ELSE raced \ {u}
        BY <1>3, <2>2, <3>1 DEF DeleteAPIKeysByUserID
      <3> QED
        BY <1>3, <2>2, <3>2 DEF StaysSo, Accounted
    <2>3. CASE req'[q] # req[q] /\ ~DeleteAPIKeysByUserID(q)
      <3>1. ~CutShort(q)
        BY <1>0 DEF CutShort
      <3>2. ~Proceed(q)
        BY <1>3, <2>3 DEF Proceed, AddOwner, SetProjectTenantID, EndView,
           UpdateOrganizationMemberRole, ListOrganizationMembers, RemoveOrganizationMember,
           DeleteSessionsByUserID, CreateOrganizationInvite, RevokeOrganizationInvite, Join,
           MarkInviteAccepted, MintForInvite, CreateAPIKey, ListAPIKeysForProject,
           DeleteAPIKey, At
      <3>3. ~Arrives(q)
        BY <1>3 DEF Arrives, At, Idle
      <3> QED
        BY <2>3, <3>1, <3>2, <3>3, WhoSteps
    <2> QED
      BY <2>1, <2>2, <2>3
  <1>4. CASE u \in raced
    <2>1. CASE UNCHANGED raced
      BY <1>4, <2>1 DEF StaysSo, Accounted
    <2>2. ASSUME NEW q \in Requests, DeleteAPIKeysByUserID(q),
                 key' = Gone(KeysOf(req[q].target)),
                 raced' = IF MintUnderWay(req[q].target) THEN raced \union {req[q].target}
                          ELSE raced \ {req[q].target}
          PROVE  \/ StaysSo(u)
                 \/ /\ DeleteAPIKeysByUserID(q) /\ req[q].target = u
                    /\ key' = Gone(KeysOf(u)) /\ ~MintUnderWay(u)
      BY <1>4, <2>2 DEF StaysSo, Accounted
    <2> QED
      BY <2>1, <2>2, RacedEffect
  <1> QED
    BY <1>1, <1>2, <1>3, <1>4 DEF StaysSo, Accounted

\* Before there is an organisation, the owner alone has keys and mints them, and the
\* owner is its first member.
LEMMA AccountedAtFirst ==
  ASSUME KeysInv, [Next]_vars, ~tenant, tenant', NEW u \in {Owner, NoUser},
         u = NoUser => NoUser \in FirstKeys
  PROVE  StaysSo(u)
  <1>1. PICK q \in Requests : SetProjectTenantID(q)
    BY TenantEffect DEF KeysInv
  <1>2. member[Owner] # None /\ UNCHANGED member
    BY <1>1 DEF SetProjectTenantID, KeysInv, OwnerFirst
  <1> QED
    BY <1>2, ConstantsAssumption DEF StaysSo, Accounted

\* Whoever asks for a key is accounted for.
LEMMA CallersAreAccounted ==
  ASSUME KeysInv, tenant, errors = 0, NEW c \in Callers, CallerRole(c) = "admin"
  PROVE  Accounted(Acting(c))
  <1>1. CASE c.user = NoUser
    <2>1. PICK k \in LiveKeys : key[k].user = NoUser
      BY <1>1, ConstantsAssumption DEF Callers
    <2> QED
      BY <1>1, <2>1 DEF StaysSo, KeysInv, NobodysKeys, Acting, Accounted
  <1>2. CASE c = [user |-> Owner, role |-> Inherited]
    <2>1. member[Owner] = "admin" /\ Acting(c) = Owner
      BY <1>2, ConstantsAssumption DEF CallerRole, Acting
    <2> QED
      BY <2>1, ConstantsAssumption DEF StaysSo, None, Accounted
  <1>3. ASSUME NEW k \in LiveKeys, c = [user |-> key[k].user, role |-> key[k].role],
               c.user # NoUser
        PROVE  Accounted(Acting(c))
    <2>1. Acting(c) = key[k].user
      BY <1>3 DEF Acting
    <2>2. CASE key[k].source = "signin"
      BY <1>2, <1>3, <2>2 DEF KeysInv, SigninKeys
    <2>3. CASE key[k].source # "signin"
      BY <2>1, <2>3 DEF StaysSo, KeysInv, KeysGoWithTheMember, Accounted
    <2> QED
      BY <2>2, <2>3
  <1> QED
    BY <1>1, <1>2, <1>3 DEF Callers

LEMMA NextMintsForMembers == KeysInv /\ [Next]_vars => MintsForMembers'
  <1> SUFFICES ASSUME KeysInv, [Next]_vars, tenant', errors' = 0, NEW p \in Requests,
                      req'[p].pc \in MintingSteps
               PROVE  StaysSo(req'[p].by)
    BY DEF MintsForMembers, Accounted, At, StaysSo
  <1>0. /\ BaseInv /\ OwnerFirst /\ MintsForMembers /\ TypeOK /\ Proper(req[p])
        /\ errors = 0
    BY TenantEffect DEF KeysInv, BaseInv
  <1>1. CASE req'[p] = req[p] /\ tenant
    <2>1. Accounted(req[p].by) /\ req[p].by \in Users /\ req[p].pc \in MintingSteps
      BY <1>0, <1>1 DEF MintsForMembers, MintingSteps, Proper, OfTeam
    <2>2. MintUnderWay(req[p].by)
      BY <2>1 DEF MintUnderWay, MintingSteps
    <2> QED
      BY <1>0, <1>1, <2>1, <2>2, StaysAccounted
  <1>2. CASE req'[p] = req[p] /\ ~tenant
    <2>1. req[p].by = Owner
      BY <1>0, <1>2, ConstantsAssumption DEF OwnerFirst, Proper, MintingSteps, Idle, OfTeam
    <2> QED
      BY <1>2, <2>1, AccountedAtFirst, ConstantsAssumption
  <1>3. CASE Arrives(p)
    <2>1. UNCHANGED <<tenant, member, key, raced, errors>> /\ req[p] = Idle
          /\ \A q \in Requests : q # p => req'[q] = req[q]
      BY <1>3 DEF Arrives
    <2>2. PICK c \in Callers : CallerRole(c) = "admin" /\ req'[p].by = Acting(c)
      BY <1>3 DEF Arrives, MintingSteps, OfTeam
    <2>3. Accounted(Acting(c)) /\ tenant
      BY <1>0, <2>1, <2>2, CallersAreAccounted
    <2>4. \A q \in Requests : At(q, "deleteKeys") => q # p
      BY <2>1 DEF At, Idle
    <2> QED
      BY <2>1, <2>2, <2>3, <2>4 DEF StaysSo, Accounted, At
  <1>4. CASE Proceed(p) \/ CutShort(p)
    <2>1. Join(p) \/ MarkInviteAccepted(p)
      BY <1>0, <1>4, WaysIn DEF MintingSteps
    <2>2. req'[p].by = req[p].by /\ UNCHANGED <<tenant, raced>>
      <3>1. UNCHANGED <<tenant, raced>>
        BY <2>1 DEF Join, MarkInviteAccepted
      <3>2. Goto(p, "mark") \/ Goto(p, "mintForInvite") \/ End(p)
        BY <2>1 DEF Join, MarkInviteAccepted
      <3>3. ~End(p)
        BY <1>0, EndEffect DEF MintingSteps, Idle
      <3> QED
        BY <1>0, <3>1, <3>2, <3>3, GotoEffect DEF Steps
    <2>3. CASE Join(p)
      <3>1. req[p].by \in Users /\ req[p].role \in Roles
        BY <1>0, <2>3 DEF Join, At, Proper, OfTeam
      <3>2. member'[req[p].by] # None
        BY <1>0, <2>3, <3>1 DEF Join, TypeOK, Roles, None
      <3> QED
        BY <2>2, <3>1, <3>2 DEF StaysSo, Accounted
    <2>4. CASE MarkInviteAccepted(p)
      <3>1. req[p].by \in Users /\ Accounted(req[p].by)
        <4>1. tenant /\ req[p].pc = "mark"
          BY <2>2, <2>4 DEF MarkInviteAccepted, At
        <4> QED
          BY <1>0, <4>1 DEF Proper, MintsForMembers, MintingSteps
      <3>2. MintUnderWay(req[p].by)
        BY <2>4 DEF MarkInviteAccepted, At, MintUnderWay
      <3> QED
        BY <1>0, <2>2, <3>1, <3>2, StaysAccounted
    <2> QED
      BY <2>1, <2>3, <2>4
  <1> QED
    BY <1>0, <1>1, <1>2, <1>3, <1>4, WhoSteps

LEMMA NextKeysGo == KeysInv /\ [Next]_vars => KeysGoWithTheMember'
  <1> SUFFICES ASSUME KeysInv, [Next]_vars, tenant', errors' = 0, NEW k \in LiveKeys'
               PROVE  StaysSo(key'[k].user) \/ key'[k].source = "signin"
    BY DEF KeysGoWithTheMember, At, StaysSo
  <1>0. /\ BaseInv /\ OwnerFirst /\ NobodysKeys /\ MintsForMembers /\ KeysGoWithTheMember
        /\ TypeOK /\ errors = 0 /\ \A q \in Requests : Proper(req[q])
    BY TenantEffect DEF KeysInv, BaseInv
  <1>1. ASSUME NEW q \in Requests, MintForInvite(q) \/ CreateAPIKey(q), key'[k].user = req[q].by
        PROVE  StaysSo(key'[k].user)
    <2>1. UNCHANGED <<tenant, member, raced>> /\ req[q].pc \in MintingSteps /\ tenant
      BY <1>1 DEF MintForInvite, CreateAPIKey, At, MintingSteps
    <2>2. Accounted(req[q].by)
      BY <1>0, <2>1 DEF MintsForMembers
    <2>3. \A p \in Requests : p # q => req'[p] = req[p]
      BY <1>0, <1>1, EndEffect DEF MintForInvite, CreateAPIKey
    <2>4. ~At(q, "deleteKeys")
      BY <2>1 DEF At, MintingSteps
    <2> QED
      BY <1>1, <2>1, <2>2, <2>3, <2>4 DEF StaysSo, Accounted, At
  <1>2. ASSUME k \in LiveKeys, key'[k] = key[k], ~tenant PROVE StaysSo(key'[k].user)
    <2>1. key[k].user \in {Owner, NoUser} /\ (key[k].user = NoUser => NoUser \in FirstKeys)
      BY <1>0, <1>2 DEF OwnerFirst, NobodysKeys
    <2> QED
      BY <1>2, <2>1, AccountedAtFirst
  <1>3. ASSUME k \in LiveKeys, key'[k] = key[k], tenant, key[k].source # "signin"
        PROVE  StaysSo(key'[k].user)
    <2>1. Accounted(key[k].user) /\ key[k].user \in Users \union {NoUser}
      BY <1>0, <1>3 DEF StaysSo, KeysGoWithTheMember, Accounted, TypeOK, KeyType, LiveKeys
    <2>2. key' # Gone(KeysOf(key[k].user))
      <3> SUFFICES ASSUME key' = Gone(KeysOf(key[k].user)) PROVE FALSE
        OBVIOUS
      <3>1. k \notin KeysOf(key[k].user)
        BY GoneEffect
      <3> QED
        BY <1>3, <3>1 DEF KeysOf
    <2> QED
      BY <1>0, <1>3, <2>1, <2>2, StaysAccounted
  <1> QED
    BY <1>0, <1>1, <1>2, <1>3, KeyEffect

\* As long as no statement fails, a key other than a sign-in's outlives the membership
\* it was minted for only if it was on its way when the member's keys were deleted,
\* however invites, mints and removals overlap.
THEOREM KeysGoWithMembers == Spec => []KeysGoWithTheMember
  <1>1. Init => KeysInv
    BY InitBase, InitKeys DEF KeysInv
  <1>2. KeysInv /\ [Next]_vars => KeysInv'
    BY NextBase, NextOwnerFirst, NextNobodysKeys, NextSigninKeys, NextMintsForMembers, NextKeysGo
       DEF KeysInv
  <1>3. KeysInv => KeysGoWithTheMember
    BY DEF KeysInv
  <1> QED
    BY <1>1, <1>2, <1>3, PTL DEF Spec

=============================================================================
