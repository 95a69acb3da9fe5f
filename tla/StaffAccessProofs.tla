--------------------------- MODULE StaffAccessProofs ---------------------------
(***************************************************************************)
(* Proofs about StaffAccess: whatever persons, holders, services, roles    *)
(* and bounds there are, and however many registrations and requests       *)
(* overlap, a verified token names one person for ever, and who is let in  *)
(* or refused was rightly so at some time.                                 *)
(***************************************************************************)
EXTENDS StaffAccess, FiniteSetTheorems, TLAPS

-----------------------------------------------------------------------------
(* The inductive invariant: registration *)

Rows == [holder : Holders \cup {None}, active : BOOLEAN]

\* A registration under way has its form filled in.
FormsAreFilled == \A r \in Registrars : at[r] # "idle" => form[r] \in Forms

\* A row without a holder is no row.
RowsAreWhole == \A s \in Staff : identity[s].holder = None => identity[s] = NoRow

\* Who found a row, and locked it, registers the holder it has.
FoundRowIsSame ==
  \A r \in Registrars : found[r] => identity[form[r].staff].holder = form[r].holder

Inserted(r) == at[r] = "permission" /\ ~found[r]

\* The keys of a row that is inserted and not committed are still free, and
\* nobody else's.
InsertedKeysAreFree == \A r \in Registrars : Inserted(r) => KeysAreFree(r)
InsertersAreApart ==
  \A r, o \in Registrars :
    r # o /\ Inserted(r) /\ Inserted(o) =>
      form[r].staff # form[o].staff /\ form[r].holder # form[o].holder

RegistryInv ==
  /\ TypeOK /\ FormsAreFilled /\ RowsAreWhole /\ FoundRowIsSame
  /\ InsertedKeysAreFree /\ InsertersAreApart /\ OneHolder

-----------------------------------------------------------------------------
(* The inductive invariant: requests *)

Judged == {"token", "identity", "permissions"}

AsksAreFilled == \A q \in Requests : pc[q] # "idle" => asks[q] \in Asks

\* In no state a request has seen do two persons share a holder.
Unshared(ids) == \A s, t \in Staff : ids[s].holder = ids[t].holder /\ ids[s].holder # None => s = t
SeenIsSound ==
  \A q \in Requests : \A reg \in ever[q] :
    /\ reg[1] \in [Staff -> Rows]
    /\ reg[2] \in [Staff -> [Services -> Roles \cup OldRoles \cup {None}]]
    /\ Unshared(reg[1])

\* A request that is judged has seen the present state.
SeesThePresent == \A q \in Requests : pc[q] \in Judged => <<identity, permission>> \in ever[q]

\* The person a request has found is the token's, and was so then.
PersonIsFound ==
  \A q \in Requests : pc[q] = "permissions" =>
    /\ identity[person[q].staff].holder = asks[q].holder
    /\ \E reg \in ever[q] :
         /\ Owns(reg, person[q].staff, asks[q].holder)
         /\ reg[1][person[q].staff].active = person[q].active

RequestInv ==
  /\ AsksAreFilled /\ SeenIsSound /\ SeesThePresent /\ PersonIsFound
  /\ AccessWasInForce /\ DeniedWithReason

IInv == RegistryInv /\ RequestInv

\* What the constants are assumed to be.
StaffConstants == RoleAssumption /\ FiniteAssumption /\ NoneAssumption

-----------------------------------------------------------------------------
(* What the steps of a registration write *)

\* A filled-in form names a person, a verified identity, a service and a role.
LEMMA FormParts ==
  ASSUME StaffConstants, NEW f \in Forms
  PROVE  /\ f.staff \in Staff /\ f.holder \in Holders /\ f.active \in BOOLEAN
         /\ f.service \in Services /\ f.role \in Roles
         /\ f.holder # None /\ f.role # None
         /\ [holder |-> f.holder, active |-> f.active] \in Rows
         /\ [holder |-> f.holder, active |-> f.active] # NoRow
<1>1. /\ f.staff \in Staff /\ f.holder \in Holders /\ f.active \in BOOLEAN
      /\ f.service \in Services /\ f.role \in Roles
  BY DEF Forms
<1>2. f.holder # None
  BY <1>1 DEF StaffConstants, NoneAssumption
<1>3. f.role # None
  BY <1>1 DEF StaffConstants, RoleAssumption, None
<1> QED
  BY <1>1, <1>2, <1>3 DEF Rows, NoRow

Others(r) == \A o \in Registrars : o # r =>
  at'[o] = at[o] /\ form'[o] = form[o] /\ found'[o] = found[o]

\* The end of a registration leaves nothing locked.
LEMMA EndsIdle ==
  ASSUME RegistrationsTyped, NEW r \in Registrars, EndRegistration(r)
  PROVE  /\ at'[r] = "idle" /\ form'[r] = NoForm /\ ~found'[r] /\ Others(r)
         /\ RegistrationsTyped'
  BY DEF RegistrationsTyped, EndRegistration, Move, Others

\* A commit writes one person's row, one that was there with the same holder, or
\* one whose keys are free.
LEMMA CommitWrites ==
  ASSUME StaffConstants, RegistryInv, NEW r \in Registrars, Commit(r)
  PROVE  /\ form[r] \in Forms
         /\ identity' = [identity EXCEPT ![form[r].staff] =
                           [holder |-> form[r].holder, active |-> form[r].active]]
         /\ identity' \in [Staff -> Rows]
         /\ identity'[form[r].staff].holder = form[r].holder
         /\ \A s \in Staff : s # form[r].staff => identity'[s] = identity[s]
         /\ found[r] => identity[form[r].staff].holder = form[r].holder
         /\ ~found[r] => KeysAreFree(r)
<1>1. form[r] \in Forms /\ at[r] = "permission"
  BY DEF RegistryInv, FormsAreFilled, Commit
<1>2. identity \in [Staff -> Rows]
  BY DEF RegistryInv, TypeOK, TablesTyped, Rows
<1>3. identity' = [identity EXCEPT ![form[r].staff] =
                     [holder |-> form[r].holder, active |-> form[r].active]]
  BY DEF Commit
<1>4. identity' \in [Staff -> Rows] /\ identity'[form[r].staff].holder = form[r].holder
      /\ \A s \in Staff : s # form[r].staff => identity'[s] = identity[s]
  BY <1>1, <1>2, <1>3, FormParts
<1> QED
  BY <1>1, <1>3, <1>4 DEF RegistryInv, FoundRowIsSame, InsertedKeysAreFree, Inserted

\* The tables change with a commit only.
LEMMA OnlyCommits ==
  ASSUME Next, ~\E r \in Registrars : Commit(r)
  PROVE  UNCHANGED tables
  BY DEF Next, Register, FindIdentity, WriteIdentity, RollBack,
    Ask, ValidateToken, FindPerson, Decide, Leave, tables

\* A registration moves with its own steps only.
Registers(r) ==
  (\E f \in Forms : Register(r, f)) \/ FindIdentity(r) \/ WriteIdentity(r) \/ Commit(r) \/ RollBack(r)

LEMMA OnlyRegisters ==
  ASSUME Next, ~\E r \in Registrars : Registers(r)
  PROVE  UNCHANGED <<tables, registering>>
  BY DEF Next, Registers, Ask, ValidateToken, FindPerson, Decide, Leave, tables, registering

-----------------------------------------------------------------------------
(* Types *)

LEMMA TablesStep ==
  ASSUME StaffConstants, RegistryInv, Next
  PROVE  TablesTyped'
<1> USE DEF RegistryInv, TypeOK
<1>1. CASE \E r \in Registrars : Commit(r)
  <2> PICK r \in Registrars : Commit(r)
    BY <1>1
  <2> DEFINE f == form[r]
  <2>1. f \in Forms /\ identity' \in [Staff -> Rows]
        /\ identity' = [identity EXCEPT ![f.staff] = [holder |-> f.holder, active |-> f.active]]
    BY CommitWrites DEF RegistryInv
  <2>2. permission' = [permission EXCEPT ![f.staff][f.service] = f.role]
    BY DEF Commit
  <2>3. permission' \in [Staff -> [Services -> Roles \cup OldRoles \cup {None}]]
    BY <2>1, <2>2, FormParts DEF TablesTyped
  <2>4. ASSUME NEW s \in Staff, Permitted(permission'[s]) # {} PROVE identity'[s] # NoRow
    <3>1. CASE s = f.staff
      BY <3>1, <2>1, FormParts DEF TablesTyped
    <3>2. CASE s # f.staff
      BY <3>2, <2>1, <2>2, <2>4, FormParts DEF TablesTyped
    <3> QED BY <3>1, <3>2
  <2> QED BY <2>1, <2>3, <2>4 DEF TablesTyped, Rows, Permitted
<1>2. CASE ~\E r \in Registrars : Commit(r)
  BY <1>2, OnlyCommits DEF tables, TablesTyped, Permitted
<1> QED BY <1>1, <1>2

LEMMA RegistrationsStep ==
  ASSUME StaffConstants, RegistryInv, Next
  PROVE  RegistrationsTyped' /\ FormsAreFilled'
<1> USE DEF RegistryInv, TypeOK
<1>1. ASSUME NEW r \in Registrars, NEW f \in Forms, Register(r, f)
      PROVE  RegistrationsTyped' /\ FormsAreFilled'
  BY <1>1 DEF Register, Move, RegistrationsTyped, FormsAreFilled
<1>2. ASSUME NEW r \in Registrars, FindIdentity(r)
      PROVE  RegistrationsTyped' /\ FormsAreFilled'
  <2>1. CASE EndRegistration(r)
    BY <2>1, EndsIdle DEF FormsAreFilled, Others
  <2>2. CASE ~EndRegistration(r)
    BY <1>2, <2>2 DEF FindIdentity, Move, RegistrationsTyped, FormsAreFilled
  <2> QED BY <2>1, <2>2
<1>3. ASSUME NEW r \in Registrars, WriteIdentity(r)
      PROVE  RegistrationsTyped' /\ FormsAreFilled'
  <2>1. CASE EndRegistration(r)
    BY <2>1, EndsIdle DEF FormsAreFilled, Others
  <2>2. CASE ~EndRegistration(r)
    BY <1>3, <2>2 DEF WriteIdentity, Move, RegistrationsTyped, FormsAreFilled
  <2> QED BY <2>1, <2>2
<1>4. ASSUME NEW r \in Registrars, Commit(r) \/ RollBack(r)
      PROVE  RegistrationsTyped' /\ FormsAreFilled'
  BY <1>4, EndsIdle DEF Commit, RollBack, FormsAreFilled, Others
<1>5. CASE UNCHANGED registering
  BY <1>5 DEF registering, RegistrationsTyped, FormsAreFilled
<1> QED BY <1>1, <1>2, <1>3, <1>4, <1>5, OnlyRegisters DEF Registers

-----------------------------------------------------------------------------
(* A verified token names one person *)

\* A commit writes a new person's row or leaves the holder as it is.
LEMMA KeepsHoldersStep ==
  ASSUME StaffConstants, RegistryInv, Next
  PROVE  KeepsHolders
<1>1. ASSUME NEW r \in Registrars, Commit(r) PROVE KeepsHolders
  BY <1>1, CommitWrites DEF KeepsHolders, KeysAreFree
<1>2. CASE UNCHANGED tables
  BY <1>2 DEF tables, KeepsHolders
<1> QED BY <1>1, <1>2, OnlyCommits

LEMMA RowsAreWholeStep ==
  ASSUME StaffConstants, RegistryInv, Next
  PROVE  RowsAreWhole'
<1>1. ASSUME NEW r \in Registrars, Commit(r) PROVE RowsAreWhole'
  BY <1>1, CommitWrites, FormParts DEF RegistryInv, RowsAreWhole
<1>2. CASE UNCHANGED tables
  BY <1>2 DEF tables, RegistryInv, RowsAreWhole
<1> QED BY <1>1, <1>2, OnlyCommits

\* A new row shares its holder with no other.
LEMMA OneHolderStep ==
  ASSUME StaffConstants, RegistryInv, Next
  PROVE  OneHolder'
<1>1. ASSUME NEW r \in Registrars, Commit(r) PROVE OneHolder'
  <2> SUFFICES ASSUME NEW s \in Staff, NEW t \in Staff, s # t,
                      identity'[s].holder = identity'[t].holder
               PROVE  identity'[s] = NoRow
    BY DEF OneHolder
  <2>1. \A x, y \in Staff : identity[x].holder = identity[y].holder /\ x # y => identity[x] = NoRow
    BY DEF RegistryInv, OneHolder
  <2>2. /\ form[r].holder # None /\ form[r].staff \in Staff /\ NoRow.holder = None
        /\ identity'[form[r].staff].holder = form[r].holder
        /\ \A x \in Staff : x # form[r].staff => identity'[x] = identity[x]
        /\ found[r] => identity[form[r].staff].holder = form[r].holder
        /\ ~found[r] => \A x \in Staff : identity[x].holder # form[r].holder
    BY <1>1, CommitWrites, FormParts DEF NoRow, KeysAreFree
  <2>3. ASSUME NEW x \in Staff, x # form[r].staff PROVE identity'[x].holder # form[r].holder
    <3>1. CASE found[r]
      <4>1. identity[form[r].staff].holder = identity[x].holder => identity[x] = NoRow
        BY <2>1, <2>2, <2>3
      <4> QED BY <3>1, <4>1, <2>2, <2>3
    <3>2. CASE ~found[r]
      BY <3>2, <2>2, <2>3
    <3> QED BY <3>1, <3>2
  <2> QED
    BY <2>1, <2>2, <2>3
<1>2. CASE UNCHANGED tables
  BY <1>2 DEF tables, RegistryInv, OneHolder
<1> QED BY <1>1, <1>2, OnlyCommits

\* The row a registration found and locked keeps its holder.
LEMMA FoundRowIsSameStep ==
  ASSUME StaffConstants, RegistryInv, Next
  PROVE  FoundRowIsSame'
<1> USE DEF RegistryInv
<1>1. ASSUME NEW o \in Registrars, found[o], found'[o], form'[o] = form[o]
      PROVE  identity'[form'[o].staff].holder = form'[o].holder
  <2>1. form[o] \in Forms
    BY <1>1 DEF TypeOK, RegistrationsTyped, FormsAreFilled
  <2>2. identity[form[o].staff].holder = form[o].holder
    BY <1>1 DEF FoundRowIsSame
  <2>3. form[o].staff \in Staff /\ identity[form[o].staff] # NoRow
    <3>1. NoRow.holder = None /\ form[o].holder # None /\ form[o].staff \in Staff
      BY <2>1, FormParts DEF NoRow
    <3> QED BY <3>1, <2>2
  <2> QED
    BY <2>2, <2>3, <1>1, KeepsHoldersStep DEF KeepsHolders
<1>2. ASSUME NEW r \in Registrars, Others(r),
             found'[r] => \/ found[r] /\ form'[r] = form[r]
                          \/ identity'[form'[r].staff].holder = form'[r].holder
      PROVE  FoundRowIsSame'
  BY <1>1, <1>2 DEF FoundRowIsSame, Others
<1> USE DEF TypeOK
<1>3. ASSUME NEW r \in Registrars, NEW f \in Forms, Register(r, f) PROVE FoundRowIsSame'
  <2>1. Others(r) /\ ~found'[r]
    BY <1>3 DEF Register, Move, Others, RegistrationsTyped
  <2> QED BY <2>1, <1>2
<1>4. ASSUME NEW r \in Registrars, FindIdentity(r) PROVE FoundRowIsSame'
  <2>1. CASE EndRegistration(r)
    BY <2>1, EndsIdle, <1>2
  <2>2. CASE ~EndRegistration(r)
    <3>1. Others(r) /\ form' = form /\ identity' = identity
          /\ (found'[r] => found[r] \/ SameHolder(r))
      BY <1>4, <2>2 DEF FindIdentity, Move, Others, RegistrationsTyped, tables
    <3> QED BY <3>1, <1>2 DEF SameHolder
  <2> QED BY <2>1, <2>2
<1>5. ASSUME NEW r \in Registrars, WriteIdentity(r) PROVE FoundRowIsSame'
  <2>1. CASE EndRegistration(r)
    BY <2>1, EndsIdle, <1>2
  <2>2. CASE ~EndRegistration(r)
    <3>1. Others(r) /\ form' = form /\ found' = found
      BY <1>5, <2>2 DEF WriteIdentity, Move, Others, RegistrationsTyped
    <3> QED BY <3>1, <1>2
  <2> QED BY <2>1, <2>2
<1>6. ASSUME NEW r \in Registrars, Commit(r) \/ RollBack(r) PROVE FoundRowIsSame'
  <2>1. EndRegistration(r)
    BY <1>6 DEF Commit, RollBack
  <2> QED BY <2>1, EndsIdle, <1>2
<1>7. CASE UNCHANGED <<tables, registering>>
  BY <1>7 DEF registering, tables, FoundRowIsSame
<1> QED
  BY <1>3, <1>4, <1>5, <1>6, <1>7, OnlyRegisters DEF Registers

\* While a row is inserted nobody else takes its keys.
LEMMA InsertedKeysStep ==
  ASSUME StaffConstants, RegistryInv, Next
  PROVE  InsertedKeysAreFree'
<1> USE DEF RegistryInv, TypeOK
<1>1. ASSUME NEW r \in Registrars, Commit(r), NEW o \in Registrars, o # r, Inserted(o)
      PROVE  KeysAreFree(o)'
  <2>1. /\ form[r].holder # None /\ form[r].staff \in Staff /\ NoRow.holder = None
        /\ identity'[form[r].staff].holder = form[r].holder
        /\ \A x \in Staff : x # form[r].staff => identity'[x] = identity[x]
        /\ found[r] => identity[form[r].staff].holder = form[r].holder
    BY <1>1, CommitWrites, FormParts DEF NoRow
  <2>2. /\ identity[form[o].staff] = NoRow
        /\ \A s \in Staff : identity[s].holder # form[o].holder
    BY <1>1 DEF InsertedKeysAreFree, KeysAreFree
  <2>3. form[o] \in Forms /\ form'[o] = form[o]
    BY <1>1, EndsIdle DEF Commit, Others, Inserted, FormsAreFilled
  <2>4. form[r].staff # form[o].staff /\ form[r].holder # form[o].holder
    <3>1. CASE found[r]
      BY <3>1, <2>1, <2>2
    <3>2. CASE ~found[r]
      BY <3>2, <1>1 DEF InsertersAreApart, Inserted, Commit
    <3> QED BY <3>1, <3>2
  <2> QED
    BY <2>1, <2>2, <2>3, <2>4, FormParts DEF KeysAreFree
\* A step that leaves the tables alone inserts what is free.
<1>2. ASSUME NEW r \in Registrars, Others(r), UNCHANGED tables,
             Inserted(r)' => form'[r] = form[r] /\ (Inserted(r) \/ KeysAreFree(r))
      PROVE  InsertedKeysAreFree'
  BY <1>2 DEF InsertedKeysAreFree, Others, Inserted, KeysAreFree, tables
<1>3. ASSUME NEW r \in Registrars, EndRegistration(r), UNCHANGED tables
      PROVE  InsertedKeysAreFree'
  BY <1>2, <1>3, EndsIdle DEF Inserted
<1>4. ASSUME NEW r \in Registrars, NEW f \in Forms, Register(r, f)
      PROVE  InsertedKeysAreFree'
  BY <1>2, <1>4 DEF Register, Move, Others, Inserted, RegistrationsTyped, tables
<1>5. ASSUME NEW r \in Registrars, FindIdentity(r) PROVE InsertedKeysAreFree'
  <2>1. CASE EndRegistration(r)
    BY <2>1, <1>3, <1>5 DEF FindIdentity
  <2>2. CASE ~EndRegistration(r)
    BY <1>2, <1>5, <2>2 DEF FindIdentity, Move, Others, Inserted, RegistrationsTyped, tables
  <2> QED BY <2>1, <2>2
<1>6. ASSUME NEW r \in Registrars, WriteIdentity(r) PROVE InsertedKeysAreFree'
  <2>1. CASE EndRegistration(r)
    BY <2>1, <1>3, <1>6 DEF WriteIdentity
  <2>2. CASE ~EndRegistration(r)
    <3>1. Others(r) /\ UNCHANGED tables /\ form' = form /\ found' = found
          /\ (found[r] \/ KeysAreFree(r))
      BY <1>6, <2>2 DEF WriteIdentity, Move, Others, RegistrationsTyped
    <3> QED BY <1>2, <3>1 DEF Inserted
  <2> QED BY <2>1, <2>2
<1>7. ASSUME NEW r \in Registrars, Commit(r) PROVE InsertedKeysAreFree'
  <2>1. ~Inserted(r)'
    BY <1>7, EndsIdle DEF Commit, Inserted
  <2>2. ASSUME NEW o \in Registrars, o # r, Inserted(o)' PROVE Inserted(o)
    BY <1>7, <2>2, EndsIdle DEF Commit, Inserted, Others
  <2> QED BY <1>1, <1>7, <2>1, <2>2 DEF InsertedKeysAreFree
<1>8. ASSUME NEW r \in Registrars, RollBack(r) PROVE InsertedKeysAreFree'
  BY <1>3, <1>8 DEF RollBack
<1>9. CASE UNCHANGED <<tables, registering>>
  BY <1>9 DEF registering, tables, InsertedKeysAreFree, Inserted, KeysAreFree
<1> QED
  BY <1>4, <1>5, <1>6, <1>7, <1>8, <1>9, OnlyRegisters DEF Registers

\* An insert waits for every other with one of its keys.
LEMMA InsertersAreApartStep ==
  ASSUME StaffConstants, RegistryInv, Next
  PROVE  InsertersAreApart'
<1> USE DEF RegistryInv, TypeOK
<1>1. ASSUME NEW r \in Registrars, Others(r),
             Inserted(r)' => /\ form'[r] = form[r]
                             /\ Inserted(r) \/ Inserters(r, form[r]) = {}
      PROVE  InsertersAreApart'
  <2>1. ASSUME NEW o \in Registrars, o # r, Inserted(r)', Inserted(o)'
        PROVE  form'[r].staff # form'[o].staff /\ form'[r].holder # form'[o].holder
    <3>1. Inserted(o) /\ form'[o] = form[o]
      BY <1>1, <2>1 DEF Others, Inserted
    <3>2. CASE Inserted(r)
      BY <1>1, <2>1, <3>1, <3>2 DEF InsertersAreApart
    <3>3. CASE Inserters(r, form[r]) = {}
      BY <1>1, <2>1, <3>1, <3>3 DEF Inserters, Inserted
    <3> QED BY <1>1, <2>1, <3>2, <3>3
  <2>2. ASSUME NEW o \in Registrars, NEW p \in Registrars, o # r, p # r, o # p,
               Inserted(o)', Inserted(p)'
        PROVE  form'[p].staff # form'[o].staff /\ form'[p].holder # form'[o].holder
    BY <1>1, <2>2 DEF Others, Inserted, InsertersAreApart
  <2> QED BY <2>1, <2>2 DEF InsertersAreApart
<1>2. ASSUME NEW r \in Registrars, EndRegistration(r) PROVE InsertersAreApart'
  BY <1>1, <1>2, EndsIdle DEF Inserted
<1>3. ASSUME NEW r \in Registrars, NEW f \in Forms, Register(r, f)
      PROVE  InsertersAreApart'
  BY <1>1, <1>3 DEF Register, Move, Others, Inserted, RegistrationsTyped
<1>4. ASSUME NEW r \in Registrars, FindIdentity(r) PROVE InsertersAreApart'
  <2>1. CASE EndRegistration(r)
    BY <2>1, <1>2
  <2>2. CASE ~EndRegistration(r)
    BY <1>1, <1>4, <2>2 DEF FindIdentity, Move, Others, Inserted, RegistrationsTyped
  <2> QED BY <2>1, <2>2
<1>5. ASSUME NEW r \in Registrars, WriteIdentity(r) PROVE InsertersAreApart'
  <2>1. CASE EndRegistration(r)
    BY <2>1, <1>2
  <2>2. CASE ~EndRegistration(r)
    <3>1. Others(r) /\ form' = form /\ found' = found
          /\ (found[r] \/ Inserters(r, form[r]) = {})
      BY <1>5, <2>2 DEF WriteIdentity, Move, Others, RegistrationsTyped
    <3> QED BY <1>1, <3>1 DEF Inserted
  <2> QED BY <2>1, <2>2
<1>6. ASSUME NEW r \in Registrars, Commit(r) \/ RollBack(r) PROVE InsertersAreApart'
  BY <1>2, <1>6 DEF Commit, RollBack
<1>7. CASE UNCHANGED registering
  BY <1>7 DEF registering, InsertersAreApart, Inserted
<1> QED
  BY <1>3, <1>4, <1>5, <1>6, <1>7, OnlyRegisters DEF Registers

LEMMA RegistryStep ==
  ASSUME StaffConstants, RegistryInv, RequestsTyped', Next
  PROVE  RegistryInv'
  BY TablesStep, RegistrationsStep, RowsAreWholeStep, FoundRowIsSameStep, InsertedKeysStep,
    InsertersAreApartStep, OneHolderStep DEF RegistryInv, TypeOK

-----------------------------------------------------------------------------
(* Requests *)

Stays(q) == pc'[q] = pc[q] /\ asks'[q] = asks[q] /\ person'[q] = person[q] /\ access'[q] = access[q]
Moves(q) == (\E a \in Asks : Ask(q, a)) \/ ValidateToken(q) \/ FindPerson(q) \/ Decide(q) \/ Leave(q)

\* A request moves with its own steps only.
LEMMA OneAsks ==
  ASSUME RequestsTyped, Next
  PROVE  \/ \A q \in Requests : Stays(q)
         \/ \E q \in Requests : Moves(q) /\ \A p \in Requests \ {q} : Stays(p)
<1>1. CASE \E r \in Registrars : Registers(r)
  BY <1>1 DEF Registers, Register, FindIdentity, WriteIdentity, Commit, RollBack, requesting, Stays
<1>2. ASSUME NEW q \in Requests, Moves(q) PROVE \A p \in Requests \ {q} : Stays(p)
  BY <1>2 DEF Moves, Ask, ValidateToken, FindPerson, Decide, Leave, GoTo, Stays, RequestsTyped
<1> QED BY <1>1, <1>2 DEF Next, Moves, Registers

LEMMA RequestsStep ==
  ASSUME TablesTyped, RequestsTyped, AsksAreFilled, Next
  PROVE  RequestsTyped' /\ AsksAreFilled'
<1>1. CASE \E r \in Registrars : Registers(r)
  BY <1>1 DEF Registers, Register, FindIdentity, WriteIdentity, Commit, RollBack, requesting,
    Remember, RequestsTyped, AsksAreFilled
<1>2. ASSUME NEW q \in Requests, NEW a \in Asks, Ask(q, a)
      PROVE RequestsTyped' /\ AsksAreFilled'
  BY <1>2 DEF Ask, GoTo, Remember, RequestsTyped, AsksAreFilled
<1>3. ASSUME NEW q \in Requests, ValidateToken(q) PROVE RequestsTyped' /\ AsksAreFilled'
  BY <1>3 DEF ValidateToken, GoTo, Remember, RequestsTyped, AsksAreFilled
<1>4. ASSUME NEW q \in Requests, FindPerson(q) PROVE RequestsTyped' /\ AsksAreFilled'
  <2>1. CASE pc' = [pc EXCEPT ![q] = "denied"] /\ person' = person
    BY <1>4, <2>1 DEF FindPerson, Remember, RequestsTyped, AsksAreFilled
  <2>2. ASSUME NEW s \in Staff, pc' = [pc EXCEPT ![q] = "permissions"],
               person' = [person EXCEPT ![q] = [staff |-> s, active |-> identity[s].active]]
        PROVE  RequestsTyped' /\ AsksAreFilled'
    <3>1. identity[s].active \in BOOLEAN
      BY DEF TablesTyped
    <3> QED BY <1>4, <2>2, <3>1 DEF FindPerson, Remember, RequestsTyped, AsksAreFilled
  <2> QED BY <1>4, <2>1, <2>2 DEF FindPerson, GoTo
<1>5. ASSUME NEW q \in Requests, Decide(q) PROVE RequestsTyped' /\ AsksAreFilled'
  BY <1>5 DEF Decide, GoTo, Remember, RequestsTyped, AsksAreFilled
<1>6. ASSUME NEW q \in Requests, Leave(q) PROVE RequestsTyped' /\ AsksAreFilled'
  BY <1>6 DEF Leave, GoTo, Remember, RequestsTyped, AsksAreFilled, NoPerson
<1> QED BY <1>1, <1>2, <1>3, <1>4, <1>5, <1>6 DEF Next, Registers

\* A request sees every state that passes until it is judged, and forgets none.
LEMMA Remembers ==
  ASSUME Next, NEW q \in Requests
  PROVE  /\ pc'[q] # "idle" => ever[q] \subseteq ever'[q]
         /\ \A reg \in ever'[q] : reg \in ever[q] \/ reg = <<identity', permission'>>
         /\ pc[q] \notin {"granted", "denied", "unverified"} /\ pc'[q] # "idle" =>
              <<identity', permission'>> \in ever'[q]
<1>1. Remember
  BY DEF Next, Register, FindIdentity, WriteIdentity, Commit, RollBack,
    Ask, ValidateToken, FindPerson, Decide, Leave
<1> QED
  BY <1>1 DEF Remember

LEMMA SeenIsSoundStep ==
  ASSUME RegistryInv', SeenIsSound, Next
  PROVE  SeenIsSound'
<1>1. Unshared(identity)'
  BY DEF RegistryInv, OneHolder, Unshared, NoRow
<1> QED
  BY <1>1, Remembers DEF RegistryInv, TypeOK, TablesTyped, Rows, SeenIsSound, Unshared

LEMMA SeesThePresentStep ==
  ASSUME RequestsTyped, SeesThePresent, Next
  PROVE  SeesThePresent'
<1> SUFFICES ASSUME NEW q \in Requests, pc'[q] \in Judged
             PROVE  <<identity', permission'>> \in ever'[q]
  BY DEF SeesThePresent
<1>1. pc[q] \in Judged \cup {"idle"}
  <2>1. CASE Moves(q)
    BY <2>1 DEF Moves, Ask, ValidateToken, FindPerson, Decide, Leave, GoTo, RequestsTyped, Judged
  <2>2. CASE Stays(q)
    BY <2>2 DEF Stays
  <2> QED BY <2>1, <2>2, OneAsks
<1> QED
  BY <1>1, Remembers DEF Judged

\* The person found keeps the token's holder until the permissions are read.
LEMMA PersonIsFoundStep ==
  ASSUME StaffConstants, RegistryInv, AsksAreFilled, SeesThePresent, PersonIsFound, Next
  PROVE  PersonIsFound'
<1> SUFFICES ASSUME NEW q \in Requests, pc'[q] = "permissions"
             PROVE  /\ identity'[person'[q].staff].holder = asks'[q].holder
                    /\ \E reg \in ever'[q] :
                         /\ Owns(reg, person'[q].staff, asks'[q].holder)
                         /\ reg[1][person'[q].staff].active = person'[q].active
  BY DEF PersonIsFound, Owns
<1> USE DEF RegistryInv, TypeOK
<1>1. ever[q] \subseteq ever'[q]
  BY Remembers
<1>2. CASE FindPerson(q)
  <2>1. PICK s \in Staff : /\ identity[s].holder = asks[q].holder
                           /\ person' = [person EXCEPT ![q] = [staff |-> s, active |-> identity[s].active]]
    BY <1>2 DEF FindPerson, GoTo, RequestsTyped
  <2>2. /\ person'[q].staff = s /\ person'[q].active = identity[s].active
        /\ asks' = asks /\ identity' = identity
    BY <1>2, <2>1 DEF FindPerson, RequestsTyped, tables
  <2>3. <<identity, permission>> \in ever[q]
    BY <1>2 DEF FindPerson, SeesThePresent, Judged
  <2> QED
    BY <1>1, <2>1, <2>2, <2>3 DEF Owns
<1>3. CASE Stays(q)
  <2>1. /\ identity[person[q].staff].holder = asks[q].holder
        /\ person[q].staff \in Staff /\ asks[q] \in Asks
    BY <1>3 DEF Stays, PersonIsFound, RequestsTyped, AsksAreFilled
  <2>2. asks[q].holder # None /\ NoRow.holder = None
    BY <2>1 DEF Asks, StaffConstants, NoneAssumption, NoRow
  <2>3. identity'[person[q].staff].holder = asks[q].holder
    BY <2>1, <2>2, KeepsHoldersStep DEF KeepsHolders
  <2> QED
    BY <1>1, <1>3, <2>3 DEF Stays, PersonIsFound
<1>4. CASE Moves(q) /\ ~FindPerson(q)
  BY <1>4 DEF Moves, Ask, ValidateToken, Decide, Leave, GoTo, RequestsTyped
<1> QED
  BY <1>2, <1>3, <1>4, OneAsks

\* The only service, or the one asked for.
LEMMA ScopeIsOne ==
  ASSUME StaffConstants, NEW row, NEW service, NEW v \in Scope(row, service)
  PROVE  /\ v \in Services /\ row[v] # None
         /\ service = None => {x \in Services : row[x] # None} = {v}
         /\ service \in {None, v}
<1>1. v \in Permitted(row)
  BY DEF Scope
<1>2. IsFiniteSet(Permitted(row))
  BY FS_Subset DEF Permitted, StaffConstants, FiniteAssumption
<1>3. CASE service = None
  <2>1. Cardinality(Permitted(row)) = 1
    BY <1>3 DEF Scope
  <2>2. Permitted(row) = {v}
    BY <1>1, <1>2, <2>1, FS_Singleton
  <2> QED BY <1>1, <1>3, <2>2 DEF Permitted
<1>4. CASE service # None
  BY <1>1, <1>4 DEF Scope, Permitted
<1> QED BY <1>3, <1>4

\* Who is let in was found by the token, active, and has the role in the state
\* in which the permissions are read.
LEMMA AccessStep ==
  ASSUME StaffConstants, RequestsTyped, SeesThePresent, PersonIsFound, AccessWasInForce, Next
  PROVE  AccessWasInForce'
<1> SUFFICES ASSUME NEW q \in Requests, pc'[q] = "granted"
             PROVE
    /\ \E reg \in ever'[q] :
         /\ Owns(reg, access'[q].staff, asks'[q].holder)
         /\ reg[1][access'[q].staff].active
    /\ \E reg \in ever'[q] :
         LET row == reg[2][access'[q].staff] IN
         /\ \/ access'[q].role = row[access'[q].service]
            \/ access'[q].role = "sender" /\ row[access'[q].service] = "operator"
         /\ asks'[q].service = None =>
              {v \in Services : row[v] # None} = {access'[q].service}
    /\ asks'[q].service \in {None, access'[q].service}
    /\ asks'[q].need = "operator" => access'[q].role # "viewer"
  BY DEF AccessWasInForce, Owns
<1>1. ever[q] \subseteq ever'[q]
  BY Remembers
<1>2. CASE Decide(q)
  <2> DEFINE row == permission[person[q].staff]
  <2>1. PICK v \in Services :
          /\ IsActive(q) /\ v \in Scope(row, asks[q].service)
          /\ Suffices(Canonical(row[v]), asks[q].need)
          /\ access' = [access EXCEPT ![q] = [staff |-> person[q].staff, service |-> v,
                                              role |-> Canonical(row[v])]]
    BY <1>2 DEF Decide, GoTo, RequestsTyped
  <2>2. /\ asks' = asks /\ access'[q].staff = person[q].staff
        /\ access'[q].service = v /\ access'[q].role = Canonical(row[v])
    BY <1>2, <2>1 DEF Decide, RequestsTyped
  <2>3. /\ \E reg \in ever[q] :
             /\ Owns(reg, person[q].staff, asks[q].holder)
             /\ reg[1][person[q].staff].active
        /\ <<identity, permission>> \in ever[q]
    BY <1>2, <2>1 DEF Decide, PersonIsFound, SeesThePresent, Judged, IsActive
  <2>4. /\ asks[q].service = None => {x \in Services : row[x] # None} = {v}
        /\ asks[q].service \in {None, v}
    BY <2>1, ScopeIsOne
  <2>5. /\ \/ Canonical(row[v]) = row[v]
           \/ Canonical(row[v]) = "sender" /\ row[v] = "operator"
        /\ asks[q].need = "operator" => Canonical(row[v]) # "viewer"
    BY <2>1 DEF Canonical, Suffices
  <2> QED
    BY <1>1, <2>2, <2>3, <2>4, <2>5
<1>3. CASE Stays(q)
  BY <1>1, <1>3 DEF Stays, AccessWasInForce
<1>4. CASE Moves(q) /\ ~Decide(q)
  BY <1>4 DEF Moves, Ask, ValidateToken, FindPerson, Leave, GoTo, RequestsTyped
<1> QED
  BY <1>2, <1>3, <1>4, OneAsks

\* Whom a state with unshared holders admits is the owner, and there is one.
LEMMA AdmittedIsOwner ==
  ASSUME NEW reg, NEW s \in Staff, NEW t \in Staff, NEW a \in Asks, StaffConstants,
         Unshared(reg[1]), Owns(reg, s, a.holder), Admits(reg, t, a)
  PROVE  s = t
  BY DEF Unshared, Owns, Admits, Asks, StaffConstants, NoneAssumption

\* Who is admitted in the state in which the permissions are read is let in.
LEMMA AdmittedIsLetIn ==
  ASSUME StaffConstants, NEW reg, NEW s \in Staff, NEW a \in Asks, Admits(reg, s, a),
         reg[2] \in [Staff -> [Services -> Roles \cup OldRoles \cup {None}]]
  PROVE  /\ Readable(reg[2][s])
         /\ \E v \in Services : v \in Scope(reg[2][s], a.service)
                                /\ Suffices(Canonical(reg[2][s][v]), a.need)
<1> DEFINE row == reg[2][s]
           scope == IF a.service = None THEN {v \in Services : row[v] # None} ELSE {a.service}
<1>1. /\ \A v \in Services : row[v] # "other"
      /\ Cardinality(scope) = 1
      /\ \A v \in scope :
           \/ row[v] \in {"sender", "admin", "operator"}
           \/ a.need = "viewer" /\ row[v] = "viewer"
  BY DEF Admits
<1>2. IsFiniteSet(Services) /\ scope \subseteq Services
  BY DEF Asks, StaffConstants, FiniteAssumption
<1>3. IsFiniteSet(scope)
  <2> HIDE DEF scope
  <2> QED BY <1>2, FS_Subset
<1>4. PICK v : scope = {v}
  <2> HIDE DEF scope
  <2> QED BY <1>1, <1>3, FS_Singleton
<1>5. v \in Services /\ (\/ row[v] \in {"sender", "admin", "operator"}
                         \/ a.need = "viewer" /\ row[v] = "viewer")
  <2> HIDE DEF scope
  <2> QED BY <1>1, <1>2, <1>4
<1>6. row[v] # None
  BY <1>5 DEF None
<1>7. v \in Scope(row, a.service)
  BY <1>1, <1>4, <1>5, <1>6 DEF Scope, Permitted
<1>8. Suffices(Canonical(row[v]), a.need)
  BY <1>5 DEF Suffices, Canonical
<1> QED
  BY <1>1, <1>5, <1>7, <1>8 DEF Readable

\* Who is refused was inactive in the state in which the person was read, or not
\* admitted in the one in which the permissions are.
LEMMA DeniedStep ==
  ASSUME StaffConstants, RegistryInv, AsksAreFilled, SeenIsSound, SeesThePresent,
         PersonIsFound, DeniedWithReason, Next
  PROVE  DeniedWithReason'
<1> SUFFICES ASSUME NEW q \in Requests, pc'[q] = "denied"
             PROVE  \E reg \in ever'[q] : ~\E s \in Staff : Admits(reg, s, asks'[q])
  BY DEF DeniedWithReason, Admits, Owns
<1> USE DEF RegistryInv, TypeOK
<1>1. ever[q] \subseteq ever'[q]
  BY Remembers
<1> DEFINE present == <<identity, permission>>
<1>2. CASE FindPerson(q)
  <2>1. {s \in Staff : identity[s].holder = asks[q].holder} = {}
    BY <1>2 DEF FindPerson, GoTo, RequestsTyped
  <2>2. ~\E s \in Staff : Admits(present, s, asks[q])
    BY <2>1 DEF Admits, Owns
  <2>3. asks' = asks /\ present \in ever[q]
    BY <1>2 DEF FindPerson, SeesThePresent, Judged
  <2> QED
    BY <1>1, <2>2, <2>3
<1>3. CASE Decide(q)
  <2> DEFINE t == person[q].staff
             row == permission[t]
  <2>1. /\ asks' = asks /\ pc[q] = "permissions" /\ asks[q] \in Asks /\ t \in Staff
        /\ present \in ever[q] /\ identity[t].holder = asks[q].holder
    BY <1>3 DEF Decide, SeesThePresent, Judged, AsksAreFilled, RequestsTyped, PersonIsFound
  <2>2. \A v \in Services : ~(/\ Readable(row) /\ IsActive(q) /\ v \in Scope(row, asks[q].service)
                              /\ Suffices(Canonical(row[v]), asks[q].need))
    BY <1>3 DEF Decide, GoTo, RequestsTyped
  <2>3. \A reg \in ever[q] : Unshared(reg[1])
    BY DEF SeenIsSound
  <2>4. CASE ~IsActive(q)
    <3>1. PICK reg \in ever[q] : Owns(reg, t, asks[q].holder) /\ ~reg[1][t].active
      BY <2>1, <2>4 DEF PersonIsFound, IsActive
    <3>2. ASSUME NEW s \in Staff, Admits(reg, s, asks[q]) PROVE FALSE
      <4>1. s = t
        BY <2>1, <2>3, <3>1, <3>2, AdmittedIsOwner
      <4> QED BY <3>1, <3>2, <4>1 DEF Admits
    <3> QED BY <1>1, <2>1, <3>2
  <2>5. CASE IsActive(q)
    <3>1. ASSUME NEW s \in Staff, Admits(present, s, asks[q]) PROVE FALSE
      <4>1. Owns(present, t, asks[q].holder) /\ present[2] = permission
        BY <2>1 DEF Owns
      <4>2. s = t
        <5> HIDE DEF present
        <5> QED BY <2>1, <2>3, <3>1, <4>1, AdmittedIsOwner
      <4>3. /\ Readable(row)
            /\ \E v \in Services : /\ v \in Scope(row, asks[q].service)
                                   /\ Suffices(Canonical(row[v]), asks[q].need)
        <5>1. present[2] \in [Staff -> [Services -> Roles \cup OldRoles \cup {None}]]
          BY <4>1 DEF TablesTyped
        <5> HIDE DEF present
        <5> QED BY <2>1, <3>1, <4>1, <4>2, <5>1, AdmittedIsLetIn
      <4> QED BY <2>2, <2>5, <4>3
    <3> QED BY <1>1, <2>1, <3>1
  <2> QED BY <2>4, <2>5
<1>4. CASE Stays(q)
  <2>1. PICK reg \in ever[q] : ~\E s \in Staff : Admits(reg, s, asks[q])
    BY <1>4 DEF Stays, DeniedWithReason
  <2> QED BY <1>1, <1>4, <2>1 DEF Stays
<1>5. CASE Moves(q) /\ ~FindPerson(q) /\ ~Decide(q)
  BY <1>5 DEF Moves, Ask, ValidateToken, Leave, GoTo, RequestsTyped
<1> QED
  BY <1>2, <1>3, <1>4, <1>5, OneAsks

-----------------------------------------------------------------------------
(* The invariant holds *)

LEMMA RegistryInit ==
  ASSUME StaffConstants, Init
  PROVE  RegistryInv
<1>1. /\ at = [r \in Registrars |-> "idle"] /\ form = [r \in Registrars |-> NoForm]
      /\ found = [r \in Registrars |-> FALSE]
  BY DEF Init
<1>2. RegistrationsTyped /\ FormsAreFilled /\ FoundRowIsSame /\ InsertedKeysAreFree /\ InsertersAreApart
  BY <1>1 DEF RegistrationsTyped, FormsAreFilled, FoundRowIsSame, InsertedKeysAreFree,
    InsertersAreApart, Inserted
<1>3. RequestsTyped
  BY DEF Init, RequestsTyped, NoPerson, NoAccess
<1>4. CASE /\ identity = [s \in Staff |-> NoRow]
           /\ permission = [s \in Staff |-> [v \in Services |-> None]]
  <2>1. \A s \in Staff : identity[s] = NoRow /\ permission[s] = [v \in Services |-> None]
    BY <1>4
  <2>2. identity \in [Staff -> [holder : Holders \cup {None}, active : BOOLEAN]]
    BY <1>4 DEF NoRow
  <2>3. permission \in [Staff -> [Services -> Roles \cup OldRoles \cup {None}]]
    BY <1>4
  <2>4. TablesTyped
    BY <2>1, <2>2, <2>3 DEF TablesTyped, Permitted
  <2> QED BY <1>2, <1>3, <2>1, <2>4 DEF RowsAreWhole, OneHolder, RegistryInv, TypeOK
<1>5. ASSUME NEW s \in Staff, NEW h \in Holders, NEW old \in [Services -> OldRoles \cup {None}],
             identity = [t \in Staff |-> IF t = s THEN [holder |-> h, active |-> TRUE] ELSE NoRow],
             permission = [t \in Staff |-> IF t = s THEN old ELSE [v \in Services |-> None]]
      PROVE  TablesTyped /\ RowsAreWhole /\ OneHolder
  <2>1. h # None
    BY DEF StaffConstants, NoneAssumption
  <2>2. identity[s] # NoRow /\ \A t \in Staff : t # s => identity[t] = NoRow /\ permission[t] = [v \in Services |-> None]
    BY <1>5, <2>1 DEF NoRow
  <2>3. identity \in [Staff -> [holder : Holders \cup {None}, active : BOOLEAN]]
    BY <1>5 DEF NoRow
  <2>4. permission \in [Staff -> [Services -> Roles \cup OldRoles \cup {None}]]
    BY <1>5
  <2>5. TablesTyped
    BY <2>2, <2>3, <2>4 DEF TablesTyped, Permitted
  <2>6. RowsAreWhole /\ OneHolder
    BY <1>5, <2>1 DEF RowsAreWhole, OneHolder, NoRow
  <2> QED BY <2>5, <2>6
<1> QED
  BY <1>2, <1>3, <1>4, <1>5 DEF Init, RegistryInv, TypeOK

LEMMA IInvInit ==
  ASSUME StaffConstants, Init
  PROVE  IInv
<1>1. pc = [q \in Requests |-> "idle"] /\ ever = [q \in Requests |-> {}]
  BY DEF Init
<1>2. RequestInv
  BY <1>1 DEF RequestInv, AsksAreFilled, SeenIsSound, SeesThePresent, PersonIsFound,
    AccessWasInForce, DeniedWithReason, Judged
<1> QED
  BY <1>2, RegistryInit DEF IInv

LEMMA IInvStep ==
  ASSUME StaffConstants, IInv, [Next]_vars
  PROVE  IInv'
<1>1. CASE Next
  <2> USE <1>1 DEF IInv, RegistryInv, RequestInv, TypeOK
  <2>1. RequestsTyped' /\ AsksAreFilled'
    BY RequestsStep
  <2>2. RegistryInv'
    BY <2>1, RegistryStep
  <2>3. SeenIsSound' /\ SeesThePresent' /\ PersonIsFound'
    BY <2>2, SeenIsSoundStep, SeesThePresentStep, PersonIsFoundStep
  <2>4. AccessWasInForce' /\ DeniedWithReason'
    BY AccessStep, DeniedStep
  <2> QED BY <2>1, <2>2, <2>3, <2>4
<1>2. CASE UNCHANGED vars
  <2> USE <1>2 DEF vars, tables, registering, requesting
  <2>1. TypeOK => TypeOK'
    BY DEF TypeOK, TablesTyped, RegistrationsTyped, RequestsTyped, Permitted
  <2>2. RegistryInv'
    BY <2>1 DEF IInv, RegistryInv, FormsAreFilled, RowsAreWhole, FoundRowIsSame,
      InsertedKeysAreFree, InsertersAreApart, Inserted, KeysAreFree, OneHolder
  <2>3. AccessWasInForce' = AccessWasInForce /\ DeniedWithReason' = DeniedWithReason
    BY DEF AccessWasInForce, DeniedWithReason, Owns, Admits
  <2>4. RequestInv'
    BY <2>3 DEF IInv, RequestInv, AsksAreFilled, SeenIsSound, SeesThePresent,
      PersonIsFound, Owns
  <2> QED BY <2>2, <2>4 DEF IInv
<1> QED BY <1>1, <1>2

\* However registrations and requests overlap: the types, what a registration
\* has locked or inserted, and what a request has seen.
THEOREM StaffInvariant ==
  ASSUME StaffConstants
  PROVE  Spec => []IInv
<1>1. Init => IInv
  BY IInvInit
<1>2. IInv /\ [Next]_vars => IInv'
  BY IInvStep
<1> QED
  BY <1>1, <1>2, PTL DEF Spec

\* However registrations overlap (register_admin_staff), no two persons ever
\* share a holder, and a person keeps the one registered first.
THEOREM HoldersAlwaysSound ==
  ASSUME StaffConstants
  PROVE  Spec => []OneHolder /\ [][KeepsHolders]_vars
<1>1. IInv => OneHolder
  BY DEF IInv, RegistryInv
<1>2. IInv /\ [Next]_vars => [KeepsHolders]_vars
  BY KeepsHoldersStep DEF IInv
<1> QED
  BY <1>1, <1>2, StaffInvariant, PTL DEF Spec

\* Whatever is registered while a request is judged, who is let in had the
\* access at some time of it, and who is refused was without it at some time.
THEOREM AccessAlwaysJust ==
  ASSUME StaffConstants
  PROVE  Spec => [](AccessWasInForce /\ DeniedWithReason)
<1>1. IInv => AccessWasInForce /\ DeniedWithReason
  BY DEF IInv, RequestInv
<1> QED
  BY <1>1, StaffInvariant, PTL
=============================================================================
