----------------------------- MODULE StaffAccess -----------------------------
(***************************************************************************)
(* Who of the staff may do what: register_admin_staff, run by hand, writes *)
(* a person's identity and one permission in a transaction; a request      *)
(* looks both up, one statement after the other, and is let in or not.     *)
(* The database is PostgreSQL at its default isolation: a statement sees   *)
(* what is committed when it starts.                                       *)
(***************************************************************************)
EXTENDS Integers, FiniteSets

CONSTANTS
  Staff,        \* staff ids
  Holders,      \* (issuer, subject) pairs of verified tokens
  Services,
  Roles,        \* roles that are registered: of viewer, sender, admin
  OldRoles,     \* further ones in rows of earlier releases: "operator", and
                \* "other" for any the enum does not have
  Registrars,   \* registrations under way at once
  Requests,     \* requests under way at once
  MaxSeen       \* bound on the committed states that pass while one is judged

RoleAssumption ==
  Roles \subseteq {"viewer", "sender", "admin"} /\ OldRoles \subseteq {"operator", "other"}
BoundAssumption == MaxSeen \in Nat
FiniteAssumption == IsFiniteSet(Services) /\ IsFiniteSet(Staff)

None == "none"
NoneAssumption == None \notin Holders \cup Services \cup Staff

VARIABLES
  identity,     \* staff_identities: identity[s].holder is None without a row
  permission,   \* staff_service_permissions: permission[s][v], None without
  at,           \* at[r]: where the registration of r is
  form,         \* form[r]: what it registers
  found,        \* found[r]: it found, and locked, the person's row
  pc,           \* pc[q]: where the request q is
  asks,         \* asks[q]: the token's holder, the service, the least role
  person,       \* person[q]: the identity it found, and whether it is active
  access,       \* access[q]: the staff context of an admitted request
  ever          \* history of a request, for the properties

tables == <<identity, permission>>
registering == <<at, form, found>>
requesting == <<pc, asks, person, access>>
vars == <<tables, registering, requesting, ever>>

NoRow == [holder |-> None, active |-> FALSE]
Forms == [staff : Staff, holder : Holders, active : BOOLEAN, service : Services, role : Roles]
NoForm == [staff |-> None, holder |-> None, active |-> FALSE, service |-> None, role |-> None]
Asks == [holder : Holders, service : Services \cup {None}, need : {"viewer", "operator"}]
NoAsk == [holder |-> None, service |-> None, need |-> None]
NoPerson == [staff |-> None, active |-> FALSE]
NoAccess == [staff |-> None, service |-> None, role |-> None]

\* Earlier releases wrote permissions too, for persons that are registered.
Init ==
  /\ \/ identity = [s \in Staff |-> NoRow] /\ permission = [s \in Staff |-> [v \in Services |-> None]]
     \/ \E s \in Staff, h \in Holders, old \in [Services -> OldRoles \cup {None}] :
          /\ identity = [t \in Staff |-> IF t = s THEN [holder |-> h, active |-> TRUE] ELSE NoRow]
          /\ permission = [t \in Staff |-> IF t = s THEN old ELSE [v \in Services |-> None]]
  /\ at = [r \in Registrars |-> "idle"]
  /\ form = [r \in Registrars |-> NoForm]
  /\ found = [r \in Registrars |-> FALSE]
  /\ pc = [q \in Requests |-> "idle"]
  /\ asks = [q \in Requests |-> NoAsk]
  /\ person = [q \in Requests |-> NoPerson]
  /\ access = [q \in Requests |-> NoAccess]
  /\ ever = [q \in Requests |-> {}]

\* The committed states a running request has seen pass.
Remember ==
  ever' = [q \in Requests |->
            IF pc'[q] = "idle" THEN {}
            ELSE IF pc[q] \in {"granted", "denied", "unverified"} THEN ever[q]
            ELSE ever[q] \cup {<<identity', permission'>>}]

-----------------------------------------------------------------------------
(* Registration *)

Move(r, place) == at' = [at EXCEPT ![r] = place]

\* Variant: that a row was found is remembered beyond the registration.
EndRegistrationFound(r) ==
  /\ Move(r, "idle")
  /\ form' = [form EXCEPT ![r] = NoForm]
  /\ UNCHANGED found
EndRegistration(r) ==
  /\ Move(r, "idle")
  /\ form' = [form EXCEPT ![r] = NoForm]
  /\ found' = [found EXCEPT ![r] = FALSE]

Register(r, f) ==
  /\ at[r] = "idle"
  /\ Move(r, "find")
  /\ form' = [form EXCEPT ![r] = f]
  /\ UNCHANGED <<tables, found, requesting>>
  /\ Remember

\* The others that hold the row lock of person s.
Lockers(r, s) ==
  {o \in Registrars \ {r} : at[o] \in {"identity", "permission"} /\ found[o] /\ form[o].staff = s}
\* The others that have inserted a row with a key of f and not committed it.
Inserters(r, f) ==
  {o \in Registrars \ {r} : at[o] = "permission" /\ ~found[o]
                            /\ (form[o].staff = f.staff \/ form[o].holder = f.holder)}

SameHolder(r) == identity[form[r].staff].holder = form[r].holder

\* SELECT ... FOR UPDATE finds no row to lock, or locks it, or waits; an
\* identity is not rebound.
FindIdentity(r) ==
  LET row == identity[form[r].staff] IN
  /\ at[r] = "find"
  /\ \/ row = NoRow /\ Move(r, "identity") /\ UNCHANGED <<form, found>>
     \/ /\ row # NoRow /\ Lockers(r, form[r].staff) = {}
        /\ IF SameHolder(r)
           THEN Move(r, "identity") /\ found' = [found EXCEPT ![r] = TRUE] /\ UNCHANGED form
           ELSE EndRegistration(r)
  /\ UNCHANGED <<tables, requesting>>
  /\ Remember

\* Variant: the pair of issuer and subject is not unique.
OnlyPrimaryKey(r) == identity[form[r].staff] = NoRow
\* The primary key and uq_staff_oidc_identity.
KeysAreFree(r) ==
  identity[form[r].staff] = NoRow /\ \A s \in Staff : identity[s].holder # form[r].holder

\* An insert waits for uncommitted rows with its keys, then takes them or fails.
WriteIdentity(r) ==
  /\ at[r] = "identity"
  /\ found[r] \/ Inserters(r, form[r]) = {}
  /\ IF found[r] \/ KeysAreFree(r)
     THEN Move(r, "permission") /\ UNCHANGED <<form, found>>
     ELSE EndRegistration(r)
  /\ UNCHANGED <<tables, requesting>>
  /\ Remember

\* The permission is inserted or updated, and both are committed.
Commit(r) ==
  LET f == form[r] IN
  /\ at[r] = "permission"
  /\ \A q \in Requests : Cardinality(ever[q]) < MaxSeen
  /\ identity' = [identity EXCEPT ![f.staff] = [holder |-> f.holder, active |-> f.active]]
  /\ permission' = [permission EXCEPT ![f.staff][f.service] = f.role]
  /\ EndRegistration(r)
  /\ UNCHANGED requesting
  /\ Remember

\* Any statement may fail: nothing of the registration stays.
RollBack(r) ==
  /\ at[r] # "idle"
  /\ EndRegistration(r)
  /\ UNCHANGED <<tables, requesting>>
  /\ Remember

-----------------------------------------------------------------------------
(* Requests *)

GoTo(q, place) == pc' = [pc EXCEPT ![q] = place]

Ask(q, a) ==
  /\ pc[q] = "idle"
  /\ GoTo(q, "token")
  /\ asks' = [asks EXCEPT ![q] = a]
  /\ UNCHANGED <<tables, registering, person, access>>
  /\ Remember

\* OidcTokenValidator: the keys are fetched anew, and any doubt about algorithm,
\* key, signature or claims, like any failure to get the keys, refuses.
ValidateToken(q) ==
  /\ pc[q] = "token"
  /\ \/ GoTo(q, "identity")
     \/ GoTo(q, "unverified")
  /\ UNCHANGED <<tables, registering, asks, person, access>>
  /\ Remember

\* The person the verified token names, by issuer and subject.
FindPerson(q) ==
  LET owners == {s \in Staff : identity[s].holder = asks[q].holder} IN
  /\ pc[q] = "identity"
  /\ IF owners = {}
     THEN GoTo(q, "denied") /\ UNCHANGED person
     ELSE \E s \in owners :
            /\ person' = [person EXCEPT ![q] = [staff |-> s, active |-> identity[s].active]]
            /\ GoTo(q, "permissions")
  /\ UNCHANGED <<tables, registering, asks, access>>
  /\ Remember

\* An operator of an earlier release is a sender.
Canonical(role) == IF role = "operator" THEN "sender" ELSE role

\* All rows of the person are read; a role the enum does not have raises,
\* whatever service it is for.
Readable(row) == \A v \in Services : row[v] # "other"
Permitted(row) == {v \in Services : row[v] # None}

\* Variant: a request that names no service gets any.
AnyPermitted(row, service) == IF service = None THEN Permitted(row) ELSE Permitted(row) \cap {service}
\* The service asked for, or the only one.
Scope(row, service) ==
  IF service # None THEN Permitted(row) \cap {service}
  ELSE IF Cardinality(Permitted(row)) = 1 THEN Permitted(row) ELSE {}

\* Variant: writing takes an admin.
SufficesForAdmin(role, need) == need = "viewer" \/ role = "admin"
\* require_admin_viewer, require_admin_operator.
Suffices(role, need) == need = "viewer" \/ role \in {"sender", "admin"}

IsActive(q) == person[q].active

Decide(q) ==
  LET row == permission[person[q].staff]
      admitted(v) == /\ Readable(row) /\ IsActive(q) /\ v \in Scope(row, asks[q].service)
                     /\ Suffices(Canonical(row[v]), asks[q].need)
  IN
  /\ pc[q] = "permissions"
  /\ \/ \E v \in Services :
          /\ admitted(v)
          /\ access' = [access EXCEPT ![q] = [staff |-> person[q].staff, service |-> v,
                                              role |-> Canonical(row[v])]]
          /\ GoTo(q, "granted")
     \/ /\ \A v \in Services : ~admitted(v)
        /\ GoTo(q, "denied")
        /\ UNCHANGED access
  /\ UNCHANGED <<tables, registering, asks, person>>
  /\ Remember

Leave(q) ==
  /\ pc[q] \in {"granted", "denied", "unverified"}
  /\ GoTo(q, "idle")
  /\ asks' = [asks EXCEPT ![q] = NoAsk]
  /\ person' = [person EXCEPT ![q] = NoPerson]
  /\ access' = [access EXCEPT ![q] = NoAccess]
  /\ UNCHANGED <<tables, registering>>
  /\ Remember

\* The steps of a registration that need nobody to enter a form.
Proceed(r) == FindIdentity(r) \/ WriteIdentity(r) \/ Commit(r)

Next ==
  \/ \E r \in Registrars :
       \/ \E f \in Forms : Register(r, f)
       \/ FindIdentity(r)
       \/ WriteIdentity(r)
       \/ Commit(r)
       \/ RollBack(r)
  \/ \E q \in Requests :
       \/ \E a \in Asks : Ask(q, a)
       \/ ValidateToken(q)
       \/ FindPerson(q)
       \/ Decide(q)
       \/ Leave(q)

Spec == Init /\ [][Next]_vars

\* A registration goes on, and the database's lock queue is fair: who waits
\* for a lock gets it at last, though others come and go.
RegistrarsRun == \A r \in Registrars : SF_vars(Proceed(r))

-----------------------------------------------------------------------------
(* Properties *)

\* A permission has its identity, as the foreign key asks, and who is past the
\* statement that locks has nothing locked when it starts anew.
TablesTyped ==
  /\ identity \in [Staff -> [holder : Holders \cup {None}, active : BOOLEAN]]
  /\ permission \in [Staff -> [Services -> Roles \cup OldRoles \cup {None}]]
  /\ \A s \in Staff : Permitted(permission[s]) # {} => identity[s] # NoRow
RegistrationsTyped ==
  /\ at \in [Registrars -> {"idle", "find", "identity", "permission"}]
  /\ form \in [Registrars -> Forms \cup {NoForm}]
  /\ found \in [Registrars -> BOOLEAN]
  /\ \A r \in Registrars : found[r] => at[r] \in {"identity", "permission"}
RequestsTyped ==
  /\ pc \in [Requests -> {"idle", "token", "unverified", "identity", "permissions",
                          "granted", "denied"}]
  /\ asks \in [Requests -> Asks \cup {NoAsk}]
  /\ person \in [Requests -> [staff : Staff \cup {None}, active : BOOLEAN]]
  /\ DOMAIN access = Requests /\ DOMAIN ever = Requests
  /\ \A q \in Requests : pc[q] = "permissions" => person[q].staff \in Staff
TypeOK == TablesTyped /\ RegistrationsTyped /\ RequestsTyped

\* However registrations overlap, a verified token names one person for ever:
\* no two persons share an issuer and subject, and a person keeps theirs.
OneHolder ==
  \A s, t \in Staff : identity[s].holder = identity[t].holder /\ s # t => identity[s] = NoRow
KeepsHolders ==
  \A s \in Staff : identity[s] # NoRow => identity'[s].holder = identity[s].holder

\* Whether the registry in the state reg admits the request: an active person,
\* a permission for the service or the only one, a role that suffices.
Owns(reg, s, h) == reg[1][s].holder = h
Admits(reg, s, a) ==
  /\ Owns(reg, s, a.holder) /\ reg[1][s].active
  /\ LET row == reg[2][s]
         scope == IF a.service = None THEN {v \in Services : row[v] # None} ELSE {a.service}
     IN  /\ \A v \in Services : row[v] # "other"
         /\ Cardinality(scope) = 1
         /\ \A v \in scope :
              \/ row[v] \in {"sender", "admin", "operator"}
              \/ a.need = "viewer" /\ row[v] = "viewer"

\* Who is let in was, at some time while the request was judged, the active
\* person of the token, and had, at some time, that role for that service, the
\* only one if none was asked for: who was inactive or without permission all
\* along stays out.
AccessWasInForce ==
  \A q \in Requests : pc[q] = "granted" =>
    /\ \E reg \in ever[q] :
         Owns(reg, access[q].staff, asks[q].holder) /\ reg[1][access[q].staff].active
    /\ \E reg \in ever[q] :
         LET row == reg[2][access[q].staff] IN
         /\ \/ access[q].role = row[access[q].service]
            \/ access[q].role = "sender" /\ row[access[q].service] = "operator"
         /\ asks[q].service = None =>
              {v \in Services : row[v] # None} = {access[q].service}
    /\ asks[q].service \in {None, access[q].service}
    /\ asks[q].need = "operator" => access[q].role # "viewer"

\* Who was entitled all along is let in, whatever is registered meanwhile for
\* others or for other services; an unreadable role of the same person is the
\* one exception, for all services.
DeniedWithReason ==
  \A q \in Requests : pc[q] = "denied" =>
    \E reg \in ever[q] : ~\E s \in Staff : Admits(reg, s, asks[q])
=============================================================================
