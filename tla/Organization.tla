----------------------------- MODULE Organization -----------------------------
(***************************************************************************)
(* The team behind one project: the members of its organisation and their  *)
(* roles, the invites, and the API keys that authenticate as a member.     *)
(*                                                                         *)
(* A request checks its caller once, when it arrives, and then sends its   *)
(* statements one by one while other requests send theirs.  The handlers   *)
(* tell "admin" from the other roles only, so "read" stands for "write"    *)
(* too.  A user is named by an email.                                      *)
(***************************************************************************)
EXTENDS Integers, FiniteSets

CONSTANTS Users,       \* the emails
          Owner,       \* projects.owner_email
          Invites,     \* bound: the invites ever sent
          Keys,        \* bound: the keys ever minted
          Requests,    \* requests in flight at once
          TeamTier,    \* whether the project may have more than one member
          FirstKeys,   \* the users the project's first key may carry
          MaxErrors    \* bound: failed statements, requests cut short

NoUser == "no user"    \* the user_id of a key older than migration 014
None   == "none"       \* the role of somebody who is not a member
Inherited == "inherited"  \* the empty role of a key: its user's role counts

ASSUME ConstantsAssumption ==
    /\ Owner \in Users /\ NoUser \notin Users
    /\ FirstKeys \subseteq {Owner, NoUser}   \* signup mints it for the owner
    /\ IsFiniteSet(Keys) /\ Keys # {}
    /\ TeamTier \in BOOLEAN
    /\ MaxErrors \in Nat

VARIABLES tenant,   \* whether projects.tenant_id is set
          member,   \* organization_members: the role of each user
          invite,   \* organization_invites
          key,      \* api_keys
          session,  \* whether the owner has a dashboard session
          req,      \* what each request has read and does next
          minted,   \* history: the keys each invite has led to
          raced,    \* history: users with a key on its way when their keys were deleted
          errors    \* history: failed statements and requests cut short

vars == <<tenant, member, invite, key, session, req, minted, raced, errors>>

Roles == {"admin", "read"}

Unused == [state |-> "unused", user |-> NoUser, role |-> None, source |-> "manual"]
NoInvite == [state |-> "unused", user |-> NoUser, role |-> None, expired |-> FALSE]
Idle == [pc |-> "idle", op |-> "none", by |-> NoUser, target |-> NoUser, role |-> None,
         seen |-> {}]

Live(k)  == key[k].state = "live"
LiveKeys == {k \in Keys : Live(k)}
Admins   == {u \in Users : member[u] = "admin"}

\* The keys that a listing shows: a sign-in's own are hidden.
ListedKeys == {k \in LiveKeys : key[k].source # "signin"}

\* What a signup leaves, whichever of its best-effort steps have succeeded; its first
\* key may be missing too.
Init ==
    /\ \E joined \in {{}, {Owner}} :
        /\ member = [u \in Users |-> IF u \in joined THEN "admin" ELSE None]
        /\ tenant \in {FALSE, joined # {}}
    /\ invite = [i \in Invites |-> NoInvite]
    /\ \E first \in {{}} \union {{k} : k \in Keys}, u \in FirstKeys :
        key = [k \in Keys |-> IF k \in first
                              THEN [state |-> "live", user |-> u, role |-> Inherited,
                                    source |-> "manual"]
                              ELSE Unused]
    /\ session = FALSE
    /\ req = [q \in Requests |-> Idle]
    /\ minted = [i \in Invites |-> 0]
    /\ raced = {}
    /\ errors = 0

-----------------------------------------------------------------------------
(* Who is calling.                                                         *)

\* A bearer key stands for its user, if it has one, and may carry a role; a session
\* stands for the owner.
Callers ==
    {[user |-> key[k].user, role |-> key[k].role] : k \in LiveKeys}
    \union {c \in {[user |-> Owner, role |-> Inherited]} : session}

Acting(c) == IF c.user = NoUser THEN Owner ELSE c.user

\* resolveCallerRole.
CallerRole(c) ==
    IF c.role # Inherited THEN c.role
    ELSE IF ~tenant \/ c.user = NoUser THEN "admin"
    ELSE member[c.user]

Begin(q, r) ==
    /\ req[q] = Idle
    /\ req' = [req EXCEPT ![q] = r]

Goto(q, pc) == req' = [req EXCEPT ![q].pc = pc]
End(q)      == req' = [req EXCEPT ![q] = Idle]
At(q, pc)   == req[q].pc = pc

\* resolveAdminContext: the caller is an admin of the organisation, which a project
\* that has none is given first; then the caller is looked up once more.  A change of
\* role rests on that check; what a removal and a revocation rest on, they read later.
Grounds(op) == IF op = "changeRole" THEN Admins ELSE {}
TeamCallers == {u \in {Acting(c) : c \in Callers} : tenant => member[u] = "admin"}

BeginAsAdmin(q, op, u, target, role) ==
    /\ Begin(q, [pc |-> IF tenant THEN op ELSE "addOwner", op |-> op,
                 by |-> IF tenant THEN NoUser ELSE u, target |-> target, role |-> role,
                 seen |-> IF tenant THEN Grounds(op) ELSE {}])
    /\ UNCHANGED <<tenant, member, invite, key, session, minted, raced, errors>>

\* bootstrapOrgForProject.  Nothing depends on the organisation's own row.
AddOwner(q) ==
    /\ At(q, "addOwner")
    /\ member' = [member EXCEPT ![Owner] = "admin"]
    /\ Goto(q, "setTenant")
    /\ UNCHANGED <<tenant, invite, key, session, minted, raced, errors>>

SetProjectTenantID(q) ==
    /\ At(q, "setTenant")
    /\ tenant' = TRUE
    /\ IF member[req[q].by] = "admin"
       THEN req' = [req EXCEPT ![q].pc = req[q].op, ![q].by = NoUser,
                               ![q].seen = Grounds(req[q].op)]
       ELSE End(q)
    /\ UNCHANGED <<member, invite, key, session, minted, raced, errors>>

SessionExpires ==
    /\ session
    /\ session' = FALSE
    /\ UNCHANGED <<tenant, member, invite, key, req, minted, raced, errors>>

-----------------------------------------------------------------------------
(* Members.                                                                *)

NotSelf(by, u) == by # u

\* HandleGetOrganization and HandleListMembers change something only here.
View(q) == ~tenant /\ \E by \in TeamCallers : BeginAsAdmin(q, "view", by, NoUser, None)

EndView(q) ==
    /\ At(q, "view")
    /\ End(q)
    /\ UNCHANGED <<tenant, member, invite, key, session, minted, raced, errors>>

HandleUpdateMemberRole(q, u, role) ==
    \E by \in TeamCallers : NotSelf(by, u) /\ BeginAsAdmin(q, "changeRole", by, u, role)

UpdateOrganizationMemberRole(q) ==
    LET u == req[q].target IN
    /\ At(q, "changeRole")
    /\ member' = IF member[u] = None THEN member ELSE [member EXCEPT ![u] = req[q].role]
    /\ End(q)
    /\ UNCHANGED <<tenant, invite, key, session, minted, raced, errors>>

HandleRemoveMember(q, u) ==
    \E by \in TeamCallers : NotSelf(by, u) /\ BeginAsAdmin(q, "removeMember", by, u, None)

\* Mutant: the one to go is counted among those who stay.
NoAdminNow(u) == Admins = {}

LastAdmin(u) == Admins = {u}

\* The list of members behind the last-admin check.
ListOrganizationMembers(q) ==
    /\ At(q, "removeMember")
    /\ IF LastAdmin(req[q].target) THEN End(q)
       ELSE req' = [req EXCEPT ![q].pc = "remove", ![q].seen = Admins]
    /\ UNCHANGED <<tenant, member, invite, key, session, minted, raced, errors>>

RemoveOrganizationMember(q) ==
    LET u == req[q].target IN
    /\ At(q, "remove")
    /\ member' = [member EXCEPT ![u] = None]
    /\ IF member[u] = None THEN End(q)
       ELSE req' = [req EXCEPT ![q].pc = "deleteKeys", ![q].seen = {}]
    /\ UNCHANGED <<tenant, invite, key, session, minted, raced, errors>>

\* Mutant: the keys with a role of their own stay.
InheritingKeysOf(u) == {k \in LiveKeys : key[k].user = u /\ key[k].role = Inherited}

KeysOf(u) == {k \in LiveKeys : key[k].user = u}

Gone(ks) == [k \in Keys |-> IF k \in ks THEN [Unused EXCEPT !.state = "gone"] ELSE key[k]]

\* Whether a key of the user is on its way.
MintUnderWay(u) ==
    \E q \in Requests : req[q].by = u /\ req[q].pc \in {"mark", "mintForInvite", "mint"}

\* Best effort.
DeleteAPIKeysByUserID(q) ==
    LET u == req[q].target IN
    /\ At(q, "deleteKeys")
    /\ \/ /\ key' = Gone(KeysOf(u))
          /\ raced' = IF MintUnderWay(u) THEN raced \union {u} ELSE raced \ {u}
          /\ UNCHANGED errors
       \/ errors < MaxErrors /\ errors' = errors + 1 /\ UNCHANGED <<key, raced>>
    /\ Goto(q, "deleteSessions")
    /\ UNCHANGED <<tenant, member, invite, session, minted>>

DeleteSessionsByUserID(q) ==
    /\ At(q, "deleteSessions")
    /\ session' = (session /\ req[q].target # Owner)
    /\ End(q)
    /\ UNCHANGED <<tenant, member, invite, key, minted, raced, errors>>

-----------------------------------------------------------------------------
(* Invites.                                                                *)

HandleCreateInvite(q, u, role) ==
    /\ TeamTier /\ \E i \in Invites : invite[i].state = "unused"
    /\ \E by \in TeamCallers : BeginAsAdmin(q, "createInvite", by, u, role)

CreateOrganizationInvite(q) ==
    /\ At(q, "createInvite")
    /\ \E i \in Invites :
        /\ invite[i].state = "unused"
        /\ invite' = [invite EXCEPT ![i] = [state |-> "pending", user |-> req[q].target,
                                            role |-> req[q].role, expired |-> FALSE]]
    /\ End(q)
    /\ UNCHANGED <<tenant, member, key, session, minted, raced, errors>>

\* The invite's week is over.
Expire(i) ==
    /\ invite[i].state = "pending" /\ ~invite[i].expired
    /\ invite' = [invite EXCEPT ![i].expired = TRUE]
    /\ UNCHANGED <<tenant, member, key, session, req, minted, raced, errors>>

HandleRevokeInvite(q, i) ==
    /\ invite[i].state = "pending"
    /\ \E by \in TeamCallers : BeginAsAdmin(q, "revokeInvite", by, i, None)

\* Mutant: an accepted invite can be accepted again.
ClaimableTwice(i) == invite[i].state \in {"pending", "accepted"}

Claimable(i) == invite[i].state = "pending"

\* The row goes, unless the invite has been accepted.
RevokeOrganizationInvite(q) ==
    LET i == req[q].target IN
    /\ At(q, "revokeInvite")
    /\ invite' = IF invite[i].state = "pending"
                 THEN [invite EXCEPT ![i] = [NoInvite EXCEPT !.state = "revoked"]] ELSE invite
    /\ End(q)
    /\ UNCHANGED <<tenant, member, key, session, minted, raced, errors>>

\* HandleAcceptInvite, for whoever has the link.
HandleAcceptInvite(q, i) ==
    /\ invite[i].state = "pending" /\ ~invite[i].expired
    /\ Begin(q, [pc |-> "join", op |-> "accept", by |-> invite[i].user,
                 target |-> i, role |-> invite[i].role, seen |-> {}])
    /\ UNCHANGED <<tenant, member, invite, key, session, minted, raced, errors>>

\* AddOrganizationMember: the invited role replaces the one a member has.
Join(q) ==
    /\ At(q, "join")
    /\ member' = [member EXCEPT ![req[q].by] = req[q].role]
    /\ Goto(q, "mark")
    /\ UNCHANGED <<tenant, invite, key, session, minted, raced, errors>>

MarkInviteAccepted(q) ==
    LET i == req[q].target IN
    /\ At(q, "mark")
    /\ IF Claimable(i)
       THEN /\ invite' = [invite EXCEPT ![i] = [NoInvite EXCEPT !.state = "accepted"]]
            /\ Goto(q, "mintForInvite")
       ELSE UNCHANGED invite /\ End(q)
    /\ UNCHANGED <<tenant, member, key, session, minted, raced, errors>>

-----------------------------------------------------------------------------
(* API keys.                                                               *)

Mint(u, role, source) ==
    \E k \in Keys :
        /\ key[k].state = "unused"
        /\ key' = [key EXCEPT ![k] = [state |-> "live", user |-> u, role |-> role,
                                      source |-> source]]

MintForInvite(q) ==
    /\ At(q, "mintForInvite")
    /\ Mint(req[q].by, Inherited, "manual")
    /\ minted' = [minted EXCEPT ![req[q].target] = @ + 1]
    /\ End(q)
    /\ UNCHANGED <<tenant, member, invite, session, raced, errors>>

\* HandleCreateAPIKey: a key for its caller, or the owner if the caller's key is of
\* nobody.
HandleCreateAPIKey(q, role) ==
    /\ \E k \in Keys : key[k].state = "unused"
    /\ \E c \in Callers :
        /\ CallerRole(c) = "admin"
        /\ Begin(q, [pc |-> "mint", op |-> "mint", by |-> Acting(c),
                     target |-> NoUser, role |-> role, seen |-> {}])
    /\ UNCHANGED <<tenant, member, invite, key, session, minted, raced, errors>>

CreateAPIKey(q) ==
    /\ At(q, "mint")
    /\ Mint(req[q].by, req[q].role, "manual")
    /\ End(q)
    /\ UNCHANGED <<tenant, member, invite, session, minted, raced, errors>>

HandleRevokeAPIKey(q, k) ==
    /\ Live(k)
    /\ \E c \in Callers :
        /\ CallerRole(c) = "admin"
        /\ Begin(q, [pc |-> "listKeys", op |-> "revokeKey", by |-> Acting(c),
                     target |-> k, role |-> None, seen |-> {}])
    /\ UNCHANGED <<tenant, member, invite, key, session, minted, raced, errors>>

\* resolveKeyRoles on what ListAPIKeysForProject has selected, which leaves out the
\* users: a key without a role of its own passes for an admin's.
ListedRole(k) == IF ~tenant \/ key[k].role = Inherited THEN "admin" ELSE key[k].role

WouldStrandProjectWithoutAdminKey(k) ==
    /\ k \in ListedKeys /\ ListedRole(k) = "admin"
    /\ \A l \in ListedKeys \ {k} : ListedRole(l) # "admin"

\* Mutant: one key too few.
NoKeyLeft == Cardinality(ListedKeys) < 1

LastKey == Cardinality(ListedKeys) <= 1

ListAPIKeysForProject(q) ==
    /\ At(q, "listKeys")
    /\ IF LastKey \/ WouldStrandProjectWithoutAdminKey(req[q].target)
       THEN End(q)
       ELSE req' = [req EXCEPT ![q].pc = "deleteKey", ![q].seen = ListedKeys]
    /\ UNCHANGED <<tenant, member, invite, key, session, minted, raced, errors>>

\* No user has been listed, so no session is closed.
DeleteAPIKey(q) ==
    /\ At(q, "deleteKey")
    /\ key' = Gone({req[q].target} \intersect LiveKeys)
    /\ End(q)
    /\ UNCHANGED <<tenant, member, invite, session, minted, raced, errors>>

-----------------------------------------------------------------------------
(* Signing in.                                                             *)

\* For the owner of a project, member or not.  The key is made in any case, is hidden
\* from the listings and does not end with its week, for authViaBearer never reads
\* expires_at.  The session is best effort; the second factor, which puts it off for
\* some, is left out.
HandleSignin ==
    /\ Mint(Owner, Inherited, "signin")
    /\ session' \in {session, TRUE}
    /\ UNCHANGED <<tenant, member, invite, req, minted, raced, errors>>

-----------------------------------------------------------------------------

\* A statement fails that the handler cannot do without, or the process dies.
CutShort(q) ==
    /\ req[q] # Idle
    /\ errors < MaxErrors
    /\ errors' = errors + 1
    /\ End(q)
    /\ UNCHANGED <<tenant, member, invite, key, session, minted, raced>>

Arrive(q) ==
    \/ View(q)
    \/ \E u \in Users, role \in Roles :
        HandleUpdateMemberRole(q, u, role) \/ HandleCreateInvite(q, u, role)
    \/ \E u \in Users : HandleRemoveMember(q, u)
    \/ \E i \in Invites : HandleRevokeInvite(q, i) \/ HandleAcceptInvite(q, i)
    \/ \E role \in Roles \union {Inherited} : HandleCreateAPIKey(q, role)
    \/ \E k \in Keys : HandleRevokeAPIKey(q, k)

Proceed(q) ==
    \/ AddOwner(q) \/ SetProjectTenantID(q) \/ EndView(q)
    \/ UpdateOrganizationMemberRole(q)
    \/ ListOrganizationMembers(q) \/ RemoveOrganizationMember(q)
    \/ DeleteAPIKeysByUserID(q) \/ DeleteSessionsByUserID(q)
    \/ CreateOrganizationInvite(q) \/ RevokeOrganizationInvite(q)
    \/ Join(q) \/ MarkInviteAccepted(q) \/ MintForInvite(q)
    \/ CreateAPIKey(q)
    \/ ListAPIKeysForProject(q) \/ DeleteAPIKey(q)

Next ==
    \/ \E q \in Requests : Arrive(q) \/ Proceed(q) \/ CutShort(q)
    \/ \E i \in Invites : Expire(i)
    \/ HandleSignin \/ SessionExpires

Spec == Init /\ [][Next]_vars

-----------------------------------------------------------------------------
(* Properties.                                                             *)

Steps == {"idle", "addOwner", "setTenant", "view", "changeRole", "removeMember", "remove",
          "deleteKeys", "deleteSessions", "createInvite", "revokeInvite", "join", "mark",
          "mintForInvite", "mint", "listKeys", "deleteKey"}

InviteType  == [state : {"unused", "pending", "accepted", "revoked"},
                user : Users \union {NoUser}, role : Roles \union {None}, expired : BOOLEAN]
KeyType     == [state : {"unused", "live", "gone"}, user : Users \union {NoUser},
                role : Roles \union {Inherited, None}, source : {"manual", "signin"}]
RequestType == [pc : Steps, op : Steps \union {"none", "accept", "revokeKey"},
                by : Users \union {NoUser},
                target : Users \union Invites \union Keys \union {NoUser},
                role : Roles \union {Inherited, None}, seen : SUBSET (Users \union Keys)]

\* The rows, the requests and the histories are of their types.
TypeOK ==
    /\ tenant \in BOOLEAN /\ session \in BOOLEAN
    /\ member \in [Users -> Roles \union {None}]
    /\ invite \in [Invites -> InviteType]
    /\ key \in [Keys -> KeyType]
    /\ req \in [Requests -> RequestType]
    /\ minted \in [Invites -> Nat]
    /\ raced \subseteq Users
    /\ errors \in 0 .. MaxErrors

\* An invite leads to one key at most, however many clicks redeem it at once, whatever
\* is revoked meanwhile and wherever a redemption is cut short.
OneKeyPerInvite == \A i \in Invites : minted[i] <= 1

\* An organisation loses its last admin only to an invite, when the admin accepts a
\* lesser role, or to a removal or a change of role that has been overtaken: since it
\* looked, other requests have changed who the admins are.
LastAdminStays ==
    [][Admins # {} =>
           \/ Admins' # {}
           \/ \E q \in Requests :
                \/ Join(q)
                \/ /\ RemoveOrganizationMember(q) \/ UpdateOrganizationMemberRole(q)
                   /\ req[q].seen # Admins]_vars

\* As long as no statement fails, a key outlives no membership: a live key is of a
\* member, or of one whose removal is about to delete it, or of one who had another
\* key on its way when it did.  A sign-in's key is the owner's, member or not; a key of
\* nobody counts as the owner's too, and so do those that it mints.
KeysGoWithTheMember ==
    tenant /\ errors = 0 =>
        \A k \in LiveKeys :
            \/ key[k].user \in Users /\ member[key[k].user] # None
            \/ key[k].source = "signin"
            \/ NoUser \in FirstKeys /\ key[k].user \in {NoUser, Owner}
            \/ \E q \in Requests : At(q, "deleteKeys") /\ req[q].target = key[k].user
            \/ key[k].user \in raced

\* A project loses the last key it can list only with the member who holds it, or to
\* a revocation that has been overtaken: since it counted, the keys have changed.
LastKeyStays ==
    [][ListedKeys # {} =>
           \/ ListedKeys' # {}
           \/ \E q \in Requests :
                \/ DeleteAPIKeysByUserID(q)
                \/ DeleteAPIKey(q) /\ req[q].seen # ListedKeys]_vars

AdminKeys == {k \in LiveKeys : CallerRole([user |-> key[k].user, role |-> key[k].role]) = "admin"}

\* A revocation leaves a project that has a key for an admin with another such key.
AdminKeyStays ==
    [][AdminKeys # {} => AdminKeys' # {} \/ ~\E q \in Requests : DeleteAPIKey(q)]_vars
=============================================================================
