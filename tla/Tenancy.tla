-------------------------------- MODULE Tenancy --------------------------------
(***************************************************************************)
(* Accounts, organizations, memberships and invitations of the control     *)
(* plane (handlers of auth, orgs and invitations over their stores), and   *)
(* the access tokens that carry a copy of the memberships.  A request is   *)
(* handled in several statements, each of which may fail; requests         *)
(* interleave between them.  Users are named by their e-mail address.      *)
(***************************************************************************)
EXTENDS Integers, FiniteSets

CONSTANTS
    Users,
    Requests,       \* requests handled at the same time
    MaxOrgs,        \* bound: organizations created
    MaxInvitations  \* bound: invitations created

Orgs == 1..MaxOrgs
Invitations == 1..MaxInvitations
Roles == {"owner", "member"}

VARIABLES
    users,      \* the accounts
    linked,     \* the users with an OAuth link
    orgs,       \* the organizations
    founded,    \* number of organizations created
    role,       \* per organization and user, the role in org_members, or "none"
    invitation, \* per invitation, its row, or NoInvitation
    tokens,     \* per user, the access token their browser holds: a role per organization
    work,       \* per request, its next statement and its locals
    joined      \* the invitations whose member was added

tenancyVars == <<users, linked, orgs, founded, role, invitation, tokens, work, joined>>
accounts == <<users, linked>>
tenants == <<orgs, founded, role>>

NoInvitation == [org |-> 0, user |-> CHOOSE u \in Users : TRUE, state |-> "none"]
NoClaims == [o \in Orgs |-> "none"]
NoRequest == [at |-> "idle", user |-> CHOOSE u \in Users : TRUE, op |-> "none", org |-> 0,
         claims |-> NoClaims, invitation |-> 0]

TenancyInit ==
    /\ users = {} /\ linked = {} /\ orgs = {} /\ founded = 0 /\ joined = {}
    /\ role = [o \in Orgs |-> [u \in Users |-> "none"]]
    /\ invitation = [i \in Invitations |-> NoInvitation]
    /\ tokens = [u \in Users |-> NoClaims]
    /\ work = [r \in Requests |-> NoRequest]

Member(o, u) == o \in orgs /\ role[o][u] # "none"

\* The statement at which r is; r goes on with the given locals, or answers.
AtStep(r, step) == work[r].at = step
Proceeds(r, local) == work' = [work EXCEPT ![r] = local]
GoesTo(r, step) == Proceeds(r, [work[r] EXCEPT !.at = step])
Replies(r) == Proceeds(r, NoRequest)
UserOf(r) == work[r].user
OrgOf(r) == work[r].org

-----------------------------------------------------------------------------
(* Signing up and in.                                                      *)

\* A user without an account registers; one with an account signs in with the
\* password, through OAuth, or with the refresh token.
Receives(r, u, op, step) ==
    AtStep(r, "idle") /\ Proceeds(r, [NoRequest EXCEPT !.at = step, !.user = u, !.op = op])

SignsIn(r) ==
    /\ \E u \in Users :
          \/ u \notin users /\ Receives(r, u, "register", "insertUser")
          \/ u \in users /\ Receives(r, u, "login", "list")
          \/ u \in users /\ Receives(r, u, "refresh", "list")
          \/ u \in linked /\ Receives(r, u, "oauth", "list")
          \/ u \in users \ linked /\ Receives(r, u, "oauth", "link")
          \/ u \notin users /\ Receives(r, u, "oauth", "insertUser")
    /\ UNCHANGED <<accounts, tenants, invitation, tokens, joined>>

\* The e-mail address is unique: of two registrations one fails.
InsertUser(r) ==
    /\ AtStep(r, "insertUser")
    /\ \/ UserOf(r) \notin users /\ users' = users \cup {UserOf(r)} /\ GoesTo(r, "insertOrg")
       \/ Replies(r) /\ UNCHANGED users
    /\ UNCHANGED <<linked, tenants, invitation, tokens, joined>>

\* What follows a new account that got no organization: registration answers
\* with an error, OAuth goes on.
InsertOrg(r) ==
    /\ AtStep(r, "insertOrg")
    /\ \/ /\ founded < MaxOrgs /\ founded' = founded + 1 /\ orgs' = orgs \cup {founded'}
          /\ Proceeds(r, [work[r] EXCEPT !.at = "addOwner", !.org = founded'])
       \/ /\ IF work[r].op = "oauth" THEN GoesTo(r, "link") ELSE Replies(r)
          /\ UNCHANGED <<founded, orgs>>
    /\ UNCHANGED <<accounts, role, invitation, tokens, joined>>

\* AddMember: INSERT, or ON CONFLICT the new role; nothing for an organization
\* that was deleted, whose row the reference needs.
AddMember(o, u, new) == o \in orgs /\ role' = [role EXCEPT ![o][u] = new]

\* The error of AddMember is logged or ignored: registration puts the claim of
\* an owner into the token all the same.
AddOwner(r) ==
    /\ AtStep(r, "addOwner")
    /\ AddMember(OrgOf(r), UserOf(r), "owner") \/ UNCHANGED role
    /\ CASE work[r].op = "register" ->
              Proceeds(r, [work[r] EXCEPT !.at = "issue", !.claims[OrgOf(r)] = "owner"])
         [] work[r].op = "oauth" -> GoesTo(r, "link")
         [] OTHER -> Replies(r)
    /\ UNCHANGED <<accounts, orgs, founded, invitation, tokens, joined>>

CreateOAuthLink(r) ==
    /\ AtStep(r, "link") /\ GoesTo(r, "list")
    /\ linked' = linked \cup {UserOf(r)} \/ linked' = linked
    /\ UNCHANGED <<users, tenants, invitation, tokens, joined>>

\* ListForUser: what a new token claims.  Variant: the refresh copies the claims
\* of the token it replaces.
Copied(r) ==
    [o \in Orgs |-> IF work[r].op = "refresh" THEN tokens[UserOf(r)][o]
                    ELSE IF Member(o, UserOf(r)) THEN "member" ELSE "none"]
ListedClaims(r) == [o \in Orgs |-> IF Member(o, UserOf(r)) THEN "member" ELSE "none"]

ListForUser(r) ==
    /\ AtStep(r, "list")
    /\ \/ Proceeds(r, [work[r] EXCEPT !.at = "roles", !.claims = ListedClaims(r)])
       \/ work[r].op = "login" /\ Replies(r)
       \/ work[r].op # "login" /\ GoesTo(r, "roles")    \* its error is ignored
    /\ UNCHANGED <<accounts, tenants, invitation, tokens, joined>>

\* GetMembership of each organization; where there is no row, or it cannot be
\* read, the role is left at "member".
GetMemberships(r) ==
    /\ AtStep(r, "roles")
    /\ \E read \in SUBSET Orgs :
          Proceeds(r, [work[r] EXCEPT !.at = "issue", !.claims =
                         [o \in Orgs |-> IF o \in read /\ @[o] # "none" /\ Member(o, UserOf(r))
                                         THEN role[o][UserOf(r)] ELSE @[o]]])
    /\ UNCHANGED <<accounts, tenants, invitation, tokens, joined>>

CreateAccessToken(r) ==
    /\ AtStep(r, "issue") /\ Replies(r)
    /\ tokens' = [tokens EXCEPT ![UserOf(r)] = work[r].claims]
    /\ UNCHANGED <<accounts, tenants, invitation, joined>>

\* The access token expires.
TokenExpires(u) ==
    /\ tokens[u] # NoClaims /\ tokens' = [tokens EXCEPT ![u] = NoClaims]
    /\ UNCHANGED <<accounts, tenants, invitation, work, joined>>

-----------------------------------------------------------------------------
(* Requests of users who are signed in.                                    *)

CreateOrg(r) ==
    /\ \E u \in users : Receives(r, u, "create", "insertOrg")
    /\ UNCHANGED <<accounts, tenants, invitation, tokens, joined>>

\* RequireOrgAccess: the role the token claims, or the one in the database.
RoleOf(o, u) == IF tokens[u][o] # "none" THEN tokens[u][o] ELSE role[o][u]
Allowed(r, op) ==
    /\ AtStep(r, "idle")
    /\ \E u \in users, o \in orgs :
          /\ RoleOf(o, u) # "none" /\ (op = "delete" => RoleOf(o, u) = "owner")
          /\ Proceeds(r, [NoRequest EXCEPT !.at = op, !.user = u, !.op = op, !.org = o])

Manages(r) ==
    /\ \E op \in {"delete", "update", "remove", "invite"} : Allowed(r, op)
    /\ UNCHANGED <<accounts, tenants, invitation, tokens, joined>>

DeleteOrg(r) ==
    /\ AtStep(r, "delete") /\ Replies(r)
    /\ orgs' = orgs \ {OrgOf(r)}
    /\ role' = [role EXCEPT ![OrgOf(r)] = [u \in Users |-> "none"]]
    /\ invitation' = [i \in Invitations |->
                         IF invitation[i].org = OrgOf(r) THEN [invitation[i] EXCEPT !.state = "gone"]
                         ELSE invitation[i]]
    /\ UNCHANGED <<accounts, founded, tokens, joined>>

ChangeMember(r) ==
    /\ AtStep(r, "update") \/ AtStep(r, "remove")
    /\ \E u \in Users :
          /\ role[OrgOf(r)][u] # "none"
          /\ \E new \in IF AtStep(r, "remove") THEN {"none"} ELSE Roles :
                role' = [role EXCEPT ![OrgOf(r)][u] = new]
    /\ Replies(r)
    /\ UNCHANGED <<accounts, orgs, founded, invitation, tokens, joined>>

NothingChanges(r) ==
    /\ AtStep(r, "update") \/ AtStep(r, "remove") \/ AtStep(r, "invite")
    /\ Replies(r)
    /\ UNCHANGED <<accounts, tenants, invitation, tokens, joined>>

CreateInvitation(r) ==
    /\ AtStep(r, "invite") /\ OrgOf(r) \in orgs /\ Replies(r)
    /\ \E i \in Invitations, u \in Users :
          /\ invitation[i] = NoInvitation
          /\ invitation' = [invitation EXCEPT ![i] = [org |-> OrgOf(r), user |-> u, state |-> "pending"]]
    /\ UNCHANGED <<accounts, tenants, tokens, joined>>

\* HandleCancel deletes the row, or the seven days are over.
InvitationEnds(i) ==
    /\ invitation[i].state = "pending"
    /\ \E end \in {"gone", "expired"} : invitation' = [invitation EXCEPT ![i].state = end]
    /\ UNCHANGED <<accounts, tenants, tokens, work, joined>>

\* HandleAccept: the invitation is pending, and its user has an account.
Accept(r) ==
    /\ AtStep(r, "idle")
    /\ \E i \in Invitations :
          /\ invitation[i].state = "pending" /\ invitation[i].user \in users
          /\ Proceeds(r, [NoRequest EXCEPT !.at = "join", !.user = invitation[i].user, !.op = "accept",
                                  !.org = invitation[i].org, !.invitation = i])
    /\ UNCHANGED <<accounts, tenants, invitation, tokens, joined>>

\* What a failed AddMember leads to.  Variant: it is ignored, as it is where an
\* organization is created.
IgnoreError(r) == GoesTo(r, "mark")
ReportError(r) == Replies(r)

Join(r) ==
    /\ AtStep(r, "join")
    /\ \/ /\ AddMember(OrgOf(r), UserOf(r), "member")
          /\ joined' = joined \cup {work[r].invitation}
          /\ GoesTo(r, "mark")
       \/ ReportError(r) /\ UNCHANGED <<role, joined>>
    /\ UNCHANGED <<accounts, orgs, founded, invitation, tokens>>

\* Its error is ignored; the invitation can then be accepted again.
MarkAccepted(r) ==
    /\ AtStep(r, "mark") /\ Replies(r)
    /\ \/ UNCHANGED invitation
       \/ LET i == work[r].invitation IN
          /\ invitation[i].state # "gone"
          /\ invitation' = [invitation EXCEPT ![i].state = "accepted"]
    /\ UNCHANGED <<accounts, tenants, tokens, joined>>

Handles(r) ==
    \/ InsertUser(r) \/ InsertOrg(r) \/ AddOwner(r) \/ CreateOAuthLink(r) \/ ListForUser(r)
    \/ GetMemberships(r) \/ CreateAccessToken(r)
    \/ DeleteOrg(r) \/ ChangeMember(r) \/ NothingChanges(r) \/ CreateInvitation(r)
    \/ Join(r) \/ MarkAccepted(r)

TenancyNext ==
    \/ \E r \in Requests : SignsIn(r) \/ CreateOrg(r) \/ Manages(r) \/ Accept(r) \/ Handles(r)
    \/ \E u \in Users : TokenExpires(u)
    \/ \E i \in Invitations : InvitationEnds(i)

\* Requests are answered, and no token is used for ever: it expires, or the
\* browser replaces it.  Nobody has to send a request.
TokenEnds(u) == TokenExpires(u) \/ \E r \in Requests : UserOf(r) = u /\ CreateAccessToken(r)

TenancyFairness ==
    /\ \A r \in Requests : WF_tenancyVars(Handles(r))
    /\ \A u \in Users : WF_tenancyVars(TokenEnds(u))

TenancySpec == TenancyInit /\ [][TenancyNext]_tenancyVars /\ TenancyFairness

-----------------------------------------------------------------------------
(* Properties.                                                             *)

\* Who is removed from an organization, or loses it, ends without a token that
\* claims it, whatever requests were under way at the time.
RemovedIsForgotten ==
    \A u \in Users, o \in Orgs : ~Member(o, u) ~> (Member(o, u) \/ tokens[u][o] = "none")

\* An invitation is used up only by a request that made its user a member,
\* even if requests that accept it, cancel it and delete the organization meet.
AcceptedHasJoined ==
    \A i \in Invitations : invitation[i].state = "accepted" => i \in joined
=============================================================================
