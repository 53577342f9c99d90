----------------------- MODULE OrganizationWorkspaces -----------------------
(***************************************************************************)
(* The workspaces and the names of shared organizations, changed and read  *)
(* while their members are changed as in Organizations.                    *)
(*                                                                         *)
(* These services authorize a request by reads that lock nothing, and lock *)
(* the organization, or wait for whoever has, when they write.             *)
(***************************************************************************)
EXTENDS Organizations

CONSTANTS
    Name,           \* what organizations may be called
    MaxWorkspaces,  \* how many workspaces this instance creates in one of them
    TenantEvents    \* the endpoints this instance explores

ASSUME TenantAssumption ==
    /\ NONE \notin Name /\ Name # {}
    /\ MaxWorkspaces \in Nat \ {0}
    /\ TenantEvents \subseteq {"rename", "create_workspace", "get_workspace"}

VARIABLES
    names,       \* organizations.name, NONE when there is no such row
    workspaces,  \* how many active workspaces each organization has
    task,        \* what each request does here; it does nothing else then
    held         \* history: the requests whose user has had the authority for
                 \* what they ask at some moment since they began

tenants == <<names, workspaces>>
allVars == <<vars, tenants, task, held>>

----------------------------------------------------------------------------
(* OrganizationPolicy *)

\* Mutant: a member may do it, too.
allows_Anybody(role, op) == TRUE

\* What update_name, create_shared and get_accessible ask the policy.
allows(role, op) == op = "get_workspace" \/ role \in {"owner", "admin"}

----------------------------------------------------------------------------
(* Requests *)

NoTask == [op |-> "none", at |-> "idle", user |-> NONE, org |-> NONE]

Answer(r) == task' = [task EXCEPT ![r] = NoTask]

\* The principal is authenticated.
tenant_start(r, op, u, o) ==
    /\ pc[r] = "idle" /\ task[r] = NoTask
    /\ op \in TenantEvents
    /\ accounts[u] = "active" /\ o \in organizations
    /\ task' = [task EXCEPT ![r] = [op |-> op, at |-> "resolve", user |-> u, org |-> o]]
    /\ UNCHANGED <<vars, tenants>>

rename_start(r) ==
    \E u \in User, o \in Organization : tenant_start(r, "rename", u, o)

create_workspace_start(r) ==
    \E u \in User, o \in Organization :
        workspaces[o] < MaxWorkspaces /\ tenant_start(r, "create_workspace", u, o)

get_workspace_start(r) ==
    \E u \in User, o \in Organization : tenant_start(r, "get_workspace", u, o)

\* OrganizationContextResolver.resolve and the policy: the role is read, and
\* only the answer of the policy is kept.  An organization that exists is
\* active and stays.
resolve(r) ==
    LET t == task[r] IN
    /\ t.at = "resolve"
    /\ IF \E m \in ActiveFor(t.org, t.user) : allows(memberships[m].role, t.op)
       THEN task' = [task EXCEPT ![r].at = "act"]
       ELSE Answer(r)
    /\ UNCHANGED <<vars, tenants>>

\* The organization is locked and read afresh (nothing refers to the object
\* that resolve has read), the name that was sent is written if it differs, and
\* the transaction ends.
update_name(r) ==
    LET t == task[r] IN
    /\ t.at = "act" /\ t.op = "rename"
    /\ OrganizationFree(t.org, r)
    /\ \E n \in Name : names' = [names EXCEPT ![t.org] = n]
    /\ Answer(r)
    /\ UNCHANGED <<vars, workspaces>>

\* The foreign key of the new row waits for the lock of the organization.
create_shared(r) ==
    LET t == task[r] IN
    /\ t.at = "act" /\ t.op = "create_workspace"
    /\ OrganizationFree(t.org, r)
    /\ workspaces' = [workspaces EXCEPT ![t.org] = IF @ < MaxWorkspaces THEN @ + 1 ELSE @]
    /\ Answer(r)
    /\ UNCHANGED <<vars, names>>

\* The workspace, or the list of them, is read.
get_accessible(r) ==
    /\ task[r].at = "act" /\ task[r].op = "get_workspace"
    /\ Answer(r)
    /\ UNCHANGED <<vars, tenants>>

\* An error, or the end of the process.
tenant_failure(r) ==
    /\ "failure" \in Events
    /\ task[r] # NoTask
    /\ Answer(r)
    /\ UNCHANGED <<vars, tenants>>

----------------------------------------------------------------------------
(* Organizations, with the part of founding that it leaves out *)

\* Founding gives the organization its name and its first workspace.
Founded ==
    LET new == organizations' \ organizations IN
    /\ \E n \in Name : names' = [o \in Organization |-> IF o \in new THEN n ELSE names[o]]
    /\ workspaces' = [o \in Organization |-> IF o \in new THEN 1 ELSE workspaces[o]]

\* A step of Organizations, by a request that does nothing here.
OrganizationsNext ==
    /\ Next
    /\ Founded
    /\ \A r \in Request : task[r] # NoTask => pc'[r] = "idle"
    /\ UNCHANGED task

TenantStart(r) == rename_start(r) \/ create_workspace_start(r) \/ get_workspace_start(r)
TenantStep(r)  == resolve(r) \/ update_name(r) \/ create_shared(r) \/ get_accessible(r)

----------------------------------------------------------------------------
\* The user of request r has the authority for what r asks: an owner or an
\* admin for a change, any active member for a look.
HasAuthority(r) ==
    \E m \in ActiveFor(task[r].org, task[r].user) :
        memberships[m].role = "member" => task[r].op = "get_workspace"

Remembered == held' = {r \in Request : /\ task'[r] # NoTask
                                       /\ r \in held \/ HasAuthority(r)'}

TenantsInit ==
    /\ Init
    /\ names = [o \in Organization |-> NONE]
    /\ workspaces = [o \in Organization |-> 0]
    /\ task = [r \in Request |-> NoTask]
    /\ held = {}

TenantsNext ==
    /\ \/ OrganizationsNext
       \/ \E r \in Request : TenantStart(r) \/ TenantStep(r) \/ tenant_failure(r)
    /\ Remembered

\* What a request does next, wherever it is.
AnyStep(r) ==
    /\ \/ TenantStep(r)
       \/ RequestStep(r) /\ UNCHANGED <<tenants, task>>
    /\ Remembered

\* As in Organizations.
TenantsSpec == /\ TenantsInit /\ [][TenantsNext]_allVars
               /\ \A r \in Request : SF_allVars(AnyStep(r))

----------------------------------------------------------------------------
\* An organization is renamed, and a workspace created or shown, only for a
\* user who has been entitled to it since the request began: whoever lost
\* membership or role before is refused, whoever loses it meanwhile may not be.
AuthorityWasHeld ==
    [][\A r \in Request :
        update_name(r) \/ create_shared(r) \/ get_accessible(r) => r \in held]_allVars

\* Every request is answered, whether it changes members, invitations, names or
\* workspaces.
EveryRequestIsAnswered ==
    \A r \in Request : []<>(pc[r] = "idle" /\ task[r] = NoTask)
============================================================================
