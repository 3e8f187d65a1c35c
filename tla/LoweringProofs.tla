--------------------------- MODULE LoweringProofs ---------------------------
(***************************************************************************)
(* Lowering keeps names unique and numbers as they are, and its tables say *)
(* what the last property says, for any names, types and descriptions.     *)
(***************************************************************************)
EXTENDS Lowering, SequenceTheorems, TLAPS

-----------------------------------------------------------------------------
(* One entry is written into a table.                                      *)

\* No entry moves: the names of one table are where the other has them.
Keeps(table, later) ==
  /\ Len(table) <= Len(later)
  /\ \A k \in DOMAIN table : k \in DOMAIN later /\ later[k].name = table[k].name

Unique(table) == \A j, k \in DOMAIN table : table[j].name = table[k].name => j = k

LEMMA UniqueNames == ASSUME NEW table PROVE IsInjective(Names(table)) <=> Unique(table)
BY DEF IsInjective, Names, Unique

LEMMA KeepsItself == ASSUME NEW table \in Seq(Entry) PROVE Keeps(table, table)
BY LenProperties DEF Keeps

LEMMA KeepsOn ==
  ASSUME NEW a \in Seq(Entry), NEW b \in Seq(Entry), NEW c \in Seq(Entry), Keeps(a, b), Keeps(b, c)
  PROVE  Keeps(a, c)
BY LenProperties DEF Keeps

LEMMA EntriesHaveNames == \A e \in Entry : e.name \in Name /\ e.takes \in Takes
BY DEF Entry

LEMMA KeptIsPrefix ==
  ASSUME NEW a \in Seq(Entry), NEW b \in Seq(Entry), Keeps(a, b)
  PROVE  IsPrefix(Names(a), Names(b))
<1>1. /\ Len(a) \in Nat /\ Len(b) \in Nat /\ DOMAIN a = 1..Len(a) /\ DOMAIN b = 1..Len(b)
      /\ \A k \in DOMAIN a : a[k].name \in Name
      /\ \A k \in DOMAIN b : b[k].name \in Name
  BY LenProperties, ElementOfSeq, EntriesHaveNames
<1>2. /\ Names(a) \in Seq(Name) /\ Len(Names(a)) = Len(a) /\ DOMAIN Names(a) = 1..Len(a)
      /\ Names(b) \in Seq(Name) /\ Len(Names(b)) = Len(b) /\ DOMAIN Names(b) = 1..Len(b)
  <2>1. Names(a) \in [1..Len(a) -> Name] /\ Names(b) \in [1..Len(b) -> Name]
    BY <1>1 DEF Names
  <2> HIDE DEF Names
  <2>2. Names(a) \in Seq(Name)
    BY <1>1, <2>1
  <2>3. Names(b) \in Seq(Name)
    BY <1>1, <2>1
  <2> QED BY <1>1, <2>1, <2>2, <2>3, LenProperties
<1>3. SubSeq(Names(a), 1, Len(a)) = [k \in 1..Len(a) |-> Names(a)[k]]
  BY <1>1, <1>2, SubSeqRestrict
<1>4. Len(a) \in 0..Len(b)
  BY <1>1 DEF Keeps
<1>5. SubSeq(Names(b), 1, Len(a)) = [k \in 1..Len(a) |-> Names(b)[k]]
  BY <1>1, <1>2, <1>4, SubSeqRestrict
<1>6. \A k \in 1..Len(a) : Names(a)[k] = Names(b)[k]
  BY <1>1 DEF Names, Keeps
<1> QED BY <1>1, <1>2, <1>3, <1>4, <1>5, <1>6 DEF IsPrefix

Puts(table, entry, later) ==
  /\ later \in Seq(Entry)
  /\ Keeps(table, later)
  /\ Unique(table) => Unique(later)
  /\ \E k \in DOMAIN later : later[k] = entry
  /\ \A k \in DOMAIN later :
       \/ later[k] = entry
       \/ later[k].name # entry.name /\ k \in DOMAIN table /\ later[k] = table[k]

LEMMA UpdatePuts ==
  ASSUME NEW table \in Seq(Entry), NEW entry \in Entry, NEW later, later = Update(table, entry)
  PROVE  Puts(table, entry, later)
<1>1. /\ Len(table) \in Nat /\ DOMAIN table = 1..Len(table)
      /\ \A k \in DOMAIN table : table[k] \in Entry
  BY LenProperties, ElementOfSeq
<1>2. CASE \E k \in DOMAIN table : table[k].name = entry.name
  <2>1. later = [k \in DOMAIN table |-> IF table[k].name = entry.name THEN entry ELSE table[k]]
    BY <1>2 DEF Update
  <2>2. later \in [1..Len(table) -> Entry]
    BY <1>1, <2>1
  <2>3. later \in Seq(Entry) /\ Len(later) = Len(table)
    BY <1>1, <2>2, LenProperties
  <2>4. Keeps(table, later)
    BY <1>1, <2>1, <2>3 DEF Keeps
  <2>5. Unique(table) => Unique(later)
    BY <2>1 DEF Unique
  <2>6. \E k \in DOMAIN later : later[k] = entry
    BY <1>2, <2>1
  <2>7. \A k \in DOMAIN later :
          \/ later[k] = entry
          \/ later[k].name # entry.name /\ k \in DOMAIN table /\ later[k] = table[k]
    BY <2>1
  <2> QED BY <2>3, <2>4, <2>5, <2>6, <2>7 DEF Puts
<1>3. CASE \A k \in DOMAIN table : table[k].name # entry.name
  <2> DEFINE n == Len(table) + 1
  <2>1. later = Append(table, entry)
    BY <1>3 DEF Update
  <2>2. /\ later \in Seq(Entry) /\ Len(later) = n /\ DOMAIN later = 1..n /\ later[n] = entry
        /\ \A k \in 1..Len(table) : later[k] = table[k]
    BY <1>1, <2>1, AppendProperties, LenProperties
  <2>3. \A k \in DOMAIN later : k = n \/ k \in DOMAIN table
    BY <1>1, <2>2
  <2>4. n \in DOMAIN later /\ n \notin DOMAIN table /\ Len(table) <= Len(later)
    BY <1>1, <2>2
  <2>5. \A k \in DOMAIN table : k \in DOMAIN later /\ later[k] = table[k]
    BY <1>1, <2>2
  <2> HIDE DEF n
  <2>6. Keeps(table, later)
    BY <2>4, <2>5 DEF Keeps
  <2>7. \A k \in DOMAIN later :
          \/ later[k] = entry
          \/ later[k].name # entry.name /\ k \in DOMAIN table /\ later[k] = table[k]
    BY <1>3, <2>2, <2>3, <2>5
  <2>8. Unique(table) => Unique(later)
    BY <1>3, <2>2, <2>3, <2>5 DEF Unique
  <2> QED BY <2>2, <2>4, <2>6, <2>7, <2>8 DEF Puts
<1> QED BY <1>2, <1>3

-----------------------------------------------------------------------------
(* One property is lowered.                                                *)

LEMMA NamesOfProperty ==
  ASSUME NEW key \in Key
  PROVE  /\ SetName(key) \in Name /\ SetName(key).form = "set"
         /\ ToggleName(key) \in Name /\ ToggleName(key).form = "toggle"
         /\ ChangedName(key) \in Name /\ ChangedName(key).form = "changed"
BY DEF Key, Name, SetName, ToggleName, ChangedName

\* A method of a property takes nothing, if it toggles, or the property's value.
Taken(name, p) == IF name.form = "toggle" THEN Nothing ELSE p.type

Property == [key : Key, type : Type, access : Access]

\* The table, and what it becomes when p's methods of certain names are written.
Writes(table, later, names, p) ==
  /\ later \in Seq(Entry)
  /\ Keeps(table, later)
  /\ Unique(table) => Unique(later)
  /\ names \subseteq {later[k].name : k \in DOMAIN later}
  /\ \A k \in DOMAIN later :
       \/ later[k].name \in names /\ later[k].takes = Taken(later[k].name, p)
       \/ later[k].name \notin names /\ k \in DOMAIN table /\ later[k] = table[k]

LEMMA WritesNothing ==
  ASSUME NEW table \in Seq(Entry), NEW p
  PROVE  Writes(table, table, {}, p)
BY KeepsItself DEF Writes

LEMMA WritesOne ==
  ASSUME NEW table \in Seq(Entry), NEW p, NEW entry \in Entry, entry.takes = Taken(entry.name, p)
  PROVE  Writes(table, Update(table, entry), {entry.name}, p)
<1>1. Puts(table, entry, Update(table, entry))
  BY UpdatePuts
<1> QED BY <1>1 DEF Puts, Writes

LEMMA WritesBoth ==
  ASSUME NEW a \in Seq(Entry), NEW b \in Seq(Entry), NEW c \in Seq(Entry), NEW p, NEW M, NEW N,
         Writes(a, b, M, p), Writes(b, c, N, p)
  PROVE  Writes(a, c, M \cup N, p)
<1>1. Keeps(a, c) /\ (Unique(a) => Unique(c))
  BY KeepsOn DEF Writes
<1>2. M \cup N \subseteq {c[k].name : k \in DOMAIN c}
  <2>1. ASSUME NEW name \in M PROVE \E k \in DOMAIN c : c[k].name = name
    <3>1. PICK k \in DOMAIN b : b[k].name = name
      BY <2>1 DEF Writes
    <3> QED BY <3>1 DEF Writes, Keeps
  <2> QED BY <2>1 DEF Writes
<1>3. \A k \in DOMAIN c :
        \/ c[k].name \in M \cup N /\ c[k].takes = Taken(c[k].name, p)
        \/ c[k].name \notin M \cup N /\ k \in DOMAIN a /\ c[k] = a[k]
  BY DEF Writes
<1> QED BY <1>1, <1>2, <1>3 DEF Writes

\* The methods a property derives are in the table then, with what it says of them.
LEMMA MethodsAreWritten ==
  ASSUME NEW table \in Seq(Entry), NEW p, p.key \in Key, p.type \in Type
  PROVE  Writes(table, WithToggle(WithSetter(table, p), p), MethodsOf(p), p)
<1> DEFINE setter == [name |-> SetName(p.key), takes |-> p.type]
           toggler == [name |-> ToggleName(p.key), takes |-> Nothing]
           mid == WithSetter(table, p)
           later == WithToggle(mid, p)
           sets == IF p.access \in Writable THEN {SetName(p.key)} ELSE {}
           toggles == IF p.access \in Togglable THEN {ToggleName(p.key)} ELSE {}
<1>1. /\ setter \in Entry /\ setter.takes = Taken(setter.name, p) /\ setter.name = SetName(p.key)
      /\ toggler \in Entry /\ toggler.takes = Taken(toggler.name, p) /\ toggler.name = ToggleName(p.key)
  BY NamesOfProperty DEF Entry, Takes, Taken
<1>2. Writes(table, mid, sets, p)
  <2>1. Writes(table, Update(table, setter), {setter.name}, p)
    BY <1>1, WritesOne
  <2>2. mid = IF p.access \in Writable THEN Update(table, setter) ELSE table
    BY DEF WithSetter
  <2>3. CASE p.access \in Writable
    BY <1>1, <2>1, <2>2, <2>3
  <2>4. CASE p.access \notin Writable
    BY <2>2, <2>4, WritesNothing
  <2> QED BY <2>3, <2>4
<1>3. mid \in Seq(Entry)
  BY <1>2 DEF Writes
<1> HIDE DEF mid
<1>4. Writes(mid, later, toggles, p)
  <2>1. Writes(mid, Update(mid, toggler), {toggler.name}, p)
    BY <1>1, <1>3, WritesOne
  <2>2. later = IF p.access \in Togglable THEN Update(mid, toggler) ELSE mid
    BY DEF WithToggle
  <2>3. CASE p.access \in Togglable
    BY <1>1, <2>1, <2>2, <2>3
  <2>4. CASE p.access \notin Togglable
    BY <1>3, <2>2, <2>4, WritesNothing
  <2> QED BY <2>3, <2>4
<1>5. later \in Seq(Entry)
  BY <1>4 DEF Writes
<1>6. MethodsOf(p) = sets \cup toggles
  BY DEF MethodsOf
<1> HIDE DEF later, sets, toggles
<1>7. Writes(table, later, MethodsOf(p), p)
  BY <1>2, <1>3, <1>4, <1>5, <1>6, WritesBoth
<1> QED BY <1>7 DEF later, mid

\* So is its signal.
LEMMA SignalIsWritten ==
  ASSUME NEW table \in Seq(Entry), NEW p, p.key \in Key, p.type \in Type
  PROVE  Writes(table, Update(table, [name |-> ChangedName(p.key), takes |-> p.type]), {ChangedName(p.key)}, p)
<1> DEFINE e == [name |-> ChangedName(p.key), takes |-> p.type]
<1>1. e \in Entry /\ e.takes = Taken(e.name, p) /\ e.name = ChangedName(p.key)
  BY NamesOfProperty DEF Entry, Takes, Taken
<1> HIDE DEF e
<1>2. Writes(table, Update(table, e), {e.name}, p)
  BY <1>1, WritesOne
<1> QED BY <1>1, <1>2 DEF e

-----------------------------------------------------------------------------
(* Types.                                                                  *)

LEMMA FunctionsAreSequences ==
  ASSUME NEW S, NEW n \in Nat, NEW f \in [1..n -> S]
  PROVE  f \in Seq(S) /\ Len(f) = n
OBVIOUS

\* What holds of the counters: nothing is lowered before the shorthands are gone.
PhaseInv == phase = "shorthand" => lowered = 0

LEMMA DeclaredAreEntries ==
  ASSUME NEW names \in Seq(Name), IsInjective(names)
  PROVE  /\ AsDeclared(names) \in Seq(Entry) /\ Unique(AsDeclared(names))
         /\ \A k \in DOMAIN AsDeclared(names) : AsDeclared(names)[k].takes = Declared
<1>1. Len(names) \in Nat /\ DOMAIN names = 1..Len(names) /\ \A k \in DOMAIN names : names[k] \in Name
  BY LenProperties, ElementOfSeq
<1>2. AsDeclared(names) \in [1..Len(names) -> Entry]
  BY <1>1 DEF AsDeclared, Entry, Takes
<1>3. AsDeclared(names) \in Seq(Entry)
  BY <1>1, <1>2
<1>4. Unique(AsDeclared(names))
  BY DEF AsDeclared, Unique, IsInjective
<1>5. \A k \in DOMAIN AsDeclared(names) : AsDeclared(names)[k].takes = Declared
  BY DEF AsDeclared
<1> QED BY <1>3, <1>4, <1>5

LEMMA TypeInit ==
  ASSUME Init
  PROVE  TypeOK /\ PhaseInv /\ Unique(rpc) /\ Unique(signal)
<1>1. PICK m \in Methods, s \in Signals, keys \in Keys :
        /\ rpc = AsDeclared(m) /\ signal = AsDeclared(s)
        /\ \E type \in [DOMAIN keys -> Type], access \in [DOMAIN keys -> Access \cup {ShortAccess}] :
             properties = [k \in DOMAIN keys |-> [key |-> keys[k], type |-> type[k], access |-> access[k]]]
  BY DEF Init
<1>2. rpc \in Seq(Entry) /\ signal \in Seq(Entry) /\ Unique(rpc) /\ Unique(signal)
  BY <1>1, DeclaredAreEntries, LoweringAssumption
<1>3. properties \in Seq([key : Key, type : Type, access : Access \cup {ShortAccess}])
  <2>1. keys \in Seq(Key)
    BY <1>1, LoweringAssumption
  <2>2. Len(keys) \in Nat /\ DOMAIN keys = 1..Len(keys) /\ \A k \in DOMAIN keys : keys[k] \in Key
    BY <2>1, LenProperties, ElementOfSeq
  <2>3. properties \in [1..Len(keys) -> [key : Key, type : Type, access : Access \cup {ShortAccess}]]
    BY <1>1, <2>2
  <2> QED BY <2>2, <2>3, FunctionsAreSequences
<1>4. lowered \in 0..Len(properties) /\ lowered = 0 /\ phase = "shorthand" /\ sections \subseteq {"rpc", "signal"}
  BY <1>3, LenProperties DEF Init
<1> QED BY <1>2, <1>3, <1>4 DEF TypeOK, PhaseInv

\* The property that is lowered next.
Lowered == properties[lowered + 1]

LEMMA LoweredIsProperty ==
  ASSUME TypeOK, LowerProperty
  PROVE  /\ lowered \in Nat /\ lowered + 1 \in DOMAIN properties
         /\ Lowered.key \in Key /\ Lowered.type \in Type /\ Lowered.access \in Access
<1>1. properties \in Seq(Property) /\ lowered \in Nat /\ lowered < Len(properties)
  BY DEF TypeOK, LowerProperty, Property
<1>2. lowered + 1 \in DOMAIN properties /\ Lowered \in Property
  BY <1>1, LenProperties, ElementOfSeq DEF Lowered
<1> QED BY <1>1, <1>2 DEF Property

LEMMA TypeStep ==
  ASSUME TypeOK, PhaseInv, [Next]_vars
  PROVE  TypeOK' /\ PhaseInv'
<1>1. CASE ExpandShorthand
  <2>1. properties \in Seq([key : Key, type : Type, access : Access \cup {ShortAccess}])
    BY <1>1 DEF TypeOK, ExpandShorthand
  <2>2. /\ Len(properties) \in Nat /\ DOMAIN properties = 1..Len(properties)
        /\ \A k \in DOMAIN properties :
             properties[k] \in [key : Key, type : Type, access : Access \cup {ShortAccess}]
    BY <2>1, LenProperties, ElementOfSeq
  <2>3. properties' \in [1..Len(properties) -> Property]
    <3> SUFFICES ASSUME NEW k \in DOMAIN properties
                 PROVE  (IF properties[k].access = ShortAccess
                         THEN [properties[k] EXCEPT !.access = "read-write"] ELSE properties[k]) \in Property
      BY <1>1, <2>2 DEF ExpandShorthand
    <3> QED BY <2>2 DEF Property, Access
  <2>4. properties' \in Seq(Property) /\ Len(properties') = Len(properties)
    BY <2>2, <2>3, LenProperties
  <2> QED BY <1>1, <2>4 DEF ExpandShorthand, TypeOK, PhaseInv, Property
<1>2. CASE LowerProperty
  <2>1. /\ lowered \in Nat /\ lowered + 1 \in DOMAIN properties
        /\ Lowered.key \in Key /\ Lowered.type \in Type /\ Lowered.access \in Access
    BY <1>2, LoweredIsProperty
  <2>2. rpc' \in Seq(Entry)
    BY <1>2, <2>1, MethodsAreWritten DEF LowerProperty, TypeOK, Lowered, Writes
  <2>4. signal' \in Seq(Entry)
    BY <1>2, <2>1, SignalIsWritten DEF LowerProperty, TypeOK, Lowered, Writes
  <2>5. lowered' \in 0..Len(properties') /\ properties' = properties /\ phase' = phase /\ phase = "lower"
    BY <1>2, <2>1 DEF LowerProperty, TypeOK
  <2>6. sections' \subseteq {"rpc", "signal"}
    BY <1>2 DEF LowerProperty, TypeOK
  <2> QED BY <2>2, <2>4, <2>5, <2>6 DEF TypeOK, PhaseInv
<1>3. CASE Build
  BY <1>3 DEF Build, TypeOK, PhaseInv
<1>4. CASE UNCHANGED vars
  BY <1>4 DEF vars, TypeOK, PhaseInv
<1> QED BY <1>1, <1>2, <1>3, <1>4 DEF Next

\* Tables hold entries and properties have an access once the shorthands are gone.
THEOREM TypeCorrect == Spec => []TypeOK
<1>1. Init => TypeOK /\ PhaseInv
  BY TypeInit
<1>2. TypeOK /\ PhaseInv /\ [Next]_vars => TypeOK' /\ PhaseInv'
  BY TypeStep
<1> QED BY <1>1, <1>2, PTL DEF Spec

-----------------------------------------------------------------------------
(* The tables.                                                             *)

\* What lowering a property does to the tables, in the words of the lemmas above.
LEMMA LoweringWrites ==
  ASSUME TypeOK, LowerProperty
  PROVE  /\ Writes(rpc, rpc', MethodsOf(Lowered), Lowered)
         /\ Writes(signal, signal', {ChangedName(Lowered.key)}, Lowered)
<1>1. Lowered.key \in Key /\ Lowered.type \in Type
  BY LoweredIsProperty
<1>2. rpc \in Seq(Entry) /\ signal \in Seq(Entry)
  BY DEF TypeOK
<1>3. rpc' = WithToggle(WithSetter(rpc, Lowered), Lowered)
  BY DEF LowerProperty, Lowered
<1>4. signal' = Update(signal, [name |-> ChangedName(Lowered.key), takes |-> Lowered.type])
  BY DEF LowerProperty, Lowered
<1>5. Writes(rpc, rpc', MethodsOf(Lowered), Lowered)
  BY <1>1, <1>2, <1>3, MethodsAreWritten
<1>6. Writes(signal, signal', {ChangedName(Lowered.key)}, Lowered)
  BY <1>1, <1>2, <1>4, SignalIsWritten
<1> QED BY <1>5, <1>6

\* The other steps leave the tables alone.
LEMMA OthersWriteNothing ==
  ASSUME [Next]_vars, ~LowerProperty
  PROVE  UNCHANGED <<rpc, signal, sections, lowered>>
BY DEF Next, ExpandShorthand, Build, vars

LEMMA UniqueStep ==
  ASSUME TypeOK, OneEntryPerName, [Next]_vars
  PROVE  OneEntryPerName'
<1>1. CASE LowerProperty
  <2>1. Unique(rpc) /\ Unique(signal)
    BY UniqueNames DEF OneEntryPerName
  <2>2. Unique(rpc') /\ Unique(signal')
    BY <1>1, <2>1, LoweringWrites DEF Writes
  <2>3. Lowered.access \notin Writable => rpc' = rpc
    BY <1>1 DEF LowerProperty, WithToggle, WithSetter, Lowered, Writable, Togglable
  <2>4. "signal" \in sections' /\ sections \subseteq sections'
    BY <1>1 DEF LowerProperty
  <2>5. rpc' # <<>> => "rpc" \in sections'
    <3>1. CASE Lowered.access \in Writable
      BY <1>1, <3>1 DEF LowerProperty, Lowered
    <3>2. CASE Lowered.access \notin Writable
      BY <2>3, <2>4, <3>2 DEF OneEntryPerName, TablesHaveSections
    <3> QED BY <3>1, <3>2
  <2>6. IsInjective(Names(rpc')) /\ IsInjective(Names(signal'))
    BY <2>2, UniqueNames
  <2>7. IsInjective(Names(rpc)') /\ IsInjective(Names(signal)')
    BY <2>6 DEF Names
  <2> QED BY <2>4, <2>5, <2>7 DEF OneEntryPerName, TablesHaveSections
<1>2. CASE ~LowerProperty
  BY <1>2, OthersWriteNothing DEF OneEntryPerName, TablesHaveSections, Names
<1> QED BY <1>1, <1>2

\* However descriptions and properties use a name, it is once in a table; and no table
\* with entries is missing from the service.
THEOREM NamesAreUnique == Spec => []OneEntryPerName
<1> DEFINE Inv == TypeOK /\ PhaseInv /\ OneEntryPerName
<1>1. Init => Inv
  <2> SUFFICES ASSUME Init PROVE Inv
    OBVIOUS
  <2>1. TypeOK /\ PhaseInv /\ Unique(rpc) /\ Unique(signal)
    BY TypeInit
  <2>2. IsInjective(Names(rpc)) /\ IsInjective(Names(signal))
    BY <2>1, UniqueNames
  <2> QED BY <2>1, <2>2 DEF Init, OneEntryPerName
<1>2. Inv /\ [Next]_vars => Inv'
  BY TypeStep, UniqueStep
<1> QED BY <1>1, <1>2, PTL DEF Spec

\* No number of a method changes when a property is lowered.
THEOREM NumbersStay == Spec => NumbersKept
<1>1. TypeOK /\ [Next]_vars => [IsPrefix(Names(rpc), Names(rpc')) /\ IsPrefix(Names(signal), Names(signal'))]_vars
  <2> SUFFICES ASSUME TypeOK, [Next]_vars
               PROVE  IsPrefix(Names(rpc), Names(rpc')) /\ IsPrefix(Names(signal), Names(signal'))
    OBVIOUS
  <2>1. rpc \in Seq(Entry) /\ signal \in Seq(Entry)
    BY DEF TypeOK
  <2>2. CASE LowerProperty
    <3>1. /\ rpc' \in Seq(Entry) /\ Keeps(rpc, rpc')
          /\ signal' \in Seq(Entry) /\ Keeps(signal, signal')
      BY <2>2, LoweringWrites DEF Writes
    <3> QED BY <2>1, <3>1, KeptIsPrefix
  <2>3. CASE ~LowerProperty
    <3>1. rpc' = rpc /\ signal' = signal
      BY <2>3, OthersWriteNothing
    <3> QED BY <2>1, <3>1, KeepsItself, KeptIsPrefix
  <2> QED BY <2>2, <2>3
<1> QED BY <1>1, TypeCorrect, PTL DEF Spec, NumbersKept

-----------------------------------------------------------------------------
(* The last property wins.                                                 *)

LEMMA GreatestIsLast ==
  ASSUME NEW n \in Nat, NEW S \in SUBSET (1..n)
  PROVE  Max(S \cup {n + 1}) = n + 1
<1> DEFINE T == S \cup {n + 1}
<1>1. n + 1 \in T /\ \A y \in T : y \in Nat /\ n + 1 >= y
  OBVIOUS
<1> HIDE DEF T
<1>2. \A x \in T : (\A y \in T : x >= y) => x = n + 1
  <2> SUFFICES ASSUME NEW x \in T, \A y \in T : x >= y PROVE x = n + 1
    OBVIOUS
  <2> QED BY <1>1
<1>3. Max(T) = n + 1
  BY <1>1, <1>2 DEF Max
<1> QED BY <1>3 DEF T

\* What Says says, of given properties.
Told(name, deriving, props) ==
  IF deriving = {} THEN Declared ELSE IF name.form = "toggle" THEN Nothing ELSE props[Max(deriving)].type

\* A table tells what the properties say that derive its names.
Tells(table, deriving, props) ==
  \A k \in DOMAIN table : table[k].takes = Told(table[k].name, deriving[table[k].name], props)

\* A table keeps telling the truth when the entries of the names a property derives
\* are written; before and after are the properties that derive each name.
LEMMA TellsAfter ==
  ASSUME NEW table, NEW later \in Seq(Entry), NEW n \in Nat, NEW props, NEW names,
         NEW before \in [Name -> SUBSET (1..n)], NEW after,
         Writes(table, later, names, props[n + 1]),
         after = [name \in Name |-> IF name \in names THEN before[name] \cup {n + 1} ELSE before[name]],
         Tells(table, before, props)
  PROVE  Tells(later, after, props)
<1> SUFFICES ASSUME NEW k \in DOMAIN later
             PROVE  later[k].takes = Told(later[k].name, after[later[k].name], props)
  BY DEF Tells
<1>1. later[k].name \in Name
  BY LenProperties, ElementOfSeq, EntriesHaveNames
<1>2. CASE later[k].name \in names
  <2>1. later[k].takes = Taken(later[k].name, props[n + 1])
    BY <1>2 DEF Writes
  <2>2. after[later[k].name] = before[later[k].name] \cup {n + 1}
    BY <1>1, <1>2
  <2>3. before[later[k].name] \in SUBSET (1..n)
    BY <1>1
  <2>4. Told(later[k].name, before[later[k].name] \cup {n + 1}, props) = Taken(later[k].name, props[n + 1])
    <3> DEFINE deriving == before[later[k].name]
               name == later[k].name
    <3>1. n \in Nat /\ deriving \in SUBSET (1..n)
      BY <2>3
    <3> HIDE DEF deriving, name
    <3>2. Max(deriving \cup {n + 1}) = n + 1 /\ deriving \cup {n + 1} # {}
      <4>1. Max(deriving \cup {n + 1}) = n + 1
        BY ONLY <3>1, GreatestIsLast
      <4>2. n + 1 \in deriving \cup {n + 1}
        OBVIOUS
      <4> QED BY <4>1, <4>2
    <3>3. Told(name, deriving \cup {n + 1}, props) = Taken(name, props[n + 1])
      BY ONLY <3>2 DEF Told, Taken
    <3> QED BY <3>3 DEF deriving, name
  <2> QED BY <2>1, <2>2, <2>4
<1>3. CASE later[k].name \notin names
  <2>1. k \in DOMAIN table /\ later[k] = table[k]
    BY <1>3 DEF Writes
  <2>2. after[later[k].name] = before[later[k].name]
    BY <1>1, <1>3
  <2> QED BY <2>1, <2>2 DEF Tells
<1> QED BY <1>2, <1>3

\* The derivations as functions, for the lemma.
MethodSources == [name \in Name |-> DerivingMethod(name)]
SignalSources == [name \in Name |-> DerivingSignal(name)]

LEMMA TablesTell ==
  ASSUME TypeOK
  PROVE  /\ \A k \in DOMAIN rpc :
              Says(rpc[k].name, DerivingMethod(rpc[k].name)) = Told(rpc[k].name, MethodSources[rpc[k].name], properties)
         /\ \A k \in DOMAIN signal :
              Says(signal[k].name, DerivingSignal(signal[k].name)) = Told(signal[k].name, SignalSources[signal[k].name], properties)
<1>1. \A k \in DOMAIN rpc : rpc[k].name \in Name
  BY LenProperties, ElementOfSeq, EntriesHaveNames DEF TypeOK
<1>2. \A k \in DOMAIN signal : signal[k].name \in Name
  BY LenProperties, ElementOfSeq, EntriesHaveNames DEF TypeOK
<1> QED BY <1>1, <1>2 DEF Says, Told, MethodSources, SignalSources

LEMMA KeptNames ==
  ASSUME NEW table, NEW later, Keeps(table, later)
  PROVE  {table[k].name : k \in DOMAIN table} \subseteq {later[k].name : k \in DOMAIN later}
BY DEF Keeps

LEMMA LastStep ==
  ASSUME TypeOK, TypeOK', LastPropertyWins, LowerProperty
  PROVE  LastPropertyWins'
<1> DEFINE changed == {ChangedName(Lowered.key)}
<1>1. /\ lowered \in Nat /\ lowered + 1 \in DOMAIN properties /\ lowered' = lowered + 1
      /\ properties' = properties /\ 1..lowered + 1 = (1..lowered) \cup {lowered + 1}
  BY LoweredIsProperty DEF LowerProperty
<1>2. /\ Writes(rpc, rpc', MethodsOf(Lowered), Lowered)
      /\ Writes(signal, signal', {ChangedName(Lowered.key)}, Lowered)
  BY LoweringWrites
<1>3. MethodSources \in [Name -> SUBSET (1..lowered)] /\ SignalSources \in [Name -> SUBSET (1..lowered)]
  BY DEF MethodSources, SignalSources, DerivingMethod, DerivingSignal
<1>4. MethodSources' = [name \in Name |->
        IF name \in MethodsOf(Lowered) THEN MethodSources[name] \cup {lowered + 1} ELSE MethodSources[name]]
  BY <1>1 DEF MethodSources, DerivingMethod, Lowered
<1>5. SignalSources' = [name \in Name |->
        IF name \in changed THEN SignalSources[name] \cup {lowered + 1} ELSE SignalSources[name]]
  BY <1>1 DEF SignalSources, DerivingSignal, Lowered
<1>6. rpc' \in Seq(Entry) /\ signal' \in Seq(Entry)
  BY DEF TypeOK
<1>7. Tells(rpc', MethodSources', properties)
  <2>1. Tells(rpc, MethodSources, properties)
    BY TablesTell DEF LastPropertyWins, Tells
  <2>2. Writes(rpc, rpc', MethodsOf(Lowered), properties[lowered + 1])
    BY <1>2 DEF Lowered
  <2> QED BY <1>1, <1>3, <1>4, <1>6, <2>1, <2>2, TellsAfter
<1>8. Tells(signal', SignalSources', properties)
  <2>1. Tells(signal, SignalSources, properties)
    BY TablesTell DEF LastPropertyWins, Tells
  <2>2. Writes(signal, signal', changed, properties[lowered + 1])
    BY <1>2 DEF Lowered
  <2> HIDE DEF changed
  <2> QED BY <1>1, <1>3, <1>5, <1>6, <2>1, <2>2, TellsAfter
<1>9. ASSUME NEW k \in 1..lowered + 1
      PROVE  /\ MethodsOf(properties[k]) \subseteq {rpc'[j].name : j \in DOMAIN rpc'}
             /\ ChangedName(properties[k].key) \in {signal'[j].name : j \in DOMAIN signal'}
  <2>0. Keeps(rpc, rpc') /\ Keeps(signal, signal')
    BY ONLY <1>2 DEF Writes
  <2>1. {rpc[j].name : j \in DOMAIN rpc} \subseteq {rpc'[j].name : j \in DOMAIN rpc'}
    BY ONLY <2>0, KeptNames
  <2>2. {signal[j].name : j \in DOMAIN signal} \subseteq {signal'[j].name : j \in DOMAIN signal'}
    BY ONLY <2>0, KeptNames
  <2>3. CASE k \in 1..lowered
    BY <2>1, <2>2, <2>3 DEF LastPropertyWins
  <2>4. CASE k = lowered + 1
    BY <1>2, <2>4 DEF Writes, Lowered
  <2> QED BY <1>1, <2>3, <2>4
<1>10. /\ \A k \in DOMAIN rpc' :
            Says(rpc[k].name, DerivingMethod(rpc[k].name))' = Told(rpc'[k].name, MethodSources'[rpc'[k].name], properties)
       /\ \A k \in DOMAIN signal' :
            Says(signal[k].name, DerivingSignal(signal[k].name))' = Told(signal'[k].name, SignalSources'[signal'[k].name], properties)
  <2>1. \A k \in DOMAIN rpc' : rpc'[k].name \in Name
    BY <1>6, LenProperties, ElementOfSeq, EntriesHaveNames
  <2>2. \A k \in DOMAIN signal' : signal'[k].name \in Name
    BY <1>6, LenProperties, ElementOfSeq, EntriesHaveNames
  <2> QED BY <1>1, <2>1, <2>2 DEF Says, Told, MethodSources, SignalSources
<1> QED BY <1>1, <1>7, <1>8, <1>9, <1>10 DEF LastPropertyWins, Tells

LEMMA LastInit == ASSUME Init PROVE LastPropertyWins
<1>1. PICK m \in Methods, s \in Signals : rpc = AsDeclared(m) /\ signal = AsDeclared(s)
  BY DEF Init
<1>2. /\ \A k \in DOMAIN rpc : rpc[k].takes = Declared
      /\ \A k \in DOMAIN signal : signal[k].takes = Declared
  BY <1>1, DeclaredAreEntries, LoweringAssumption
<1>3. lowered = 0 /\ 1..0 = {}
  BY DEF Init
<1>4. \A name : DerivingMethod(name) = {} /\ DerivingSignal(name) = {}
  BY <1>3 DEF DerivingMethod, DerivingSignal
<1> QED BY <1>2, <1>3, <1>4 DEF LastPropertyWins, Says

LEMMA LastKept ==
  ASSUME TypeOK, PhaseInv, LastPropertyWins, [Next]_vars, ~LowerProperty
  PROVE  LastPropertyWins'
<1>1. UNCHANGED <<rpc, signal, lowered>>
  BY OthersWriteNothing
<1>2. CASE ExpandShorthand
  <2>1. lowered = 0 /\ 1..0 = {} /\ lowered' = 0
    BY <1>1, <1>2 DEF PhaseInv, ExpandShorthand
  <2>2. \A name : DerivingMethod(name) = {} /\ DerivingSignal(name) = {}
    BY <2>1 DEF DerivingMethod, DerivingSignal
  <2>3. \A name : DerivingMethod(name)' = {} /\ DerivingSignal(name)' = {}
    BY <2>1 DEF DerivingMethod, DerivingSignal
  <2>4. /\ \A k \in DOMAIN rpc : rpc[k].takes = Declared
        /\ \A k \in DOMAIN signal : signal[k].takes = Declared
    BY <2>2 DEF LastPropertyWins, Says
  <2> QED BY <1>1, <2>1, <2>3, <2>4 DEF LastPropertyWins, Says
<1>3. CASE UNCHANGED properties
  <2>1. \A name : DerivingMethod(name)' = DerivingMethod(name) /\ DerivingSignal(name)' = DerivingSignal(name)
    BY <1>1, <1>3 DEF DerivingMethod, DerivingSignal
  <2>2. \A k \in DOMAIN rpc : rpc'[k].takes = Says(rpc[k].name, DerivingMethod(rpc[k].name))'
    BY <1>1, <1>3, <2>1 DEF LastPropertyWins, Says
  <2>3. \A k \in DOMAIN signal : signal'[k].takes = Says(signal[k].name, DerivingSignal(signal[k].name))'
    BY <1>1, <1>3, <2>1 DEF LastPropertyWins, Says
  <2> QED BY <1>1, <1>3, <2>2, <2>3 DEF LastPropertyWins
<1> QED BY <1>2, <1>3 DEF Next, Build, vars

\* Of several properties, and a declaration, that use a name the last property decides
\* what the method or the signal takes; none that was lowered is missing.
THEOREM LastOneDecides == Spec => []LastPropertyWins
<1> DEFINE Inv == TypeOK /\ PhaseInv /\ LastPropertyWins
<1>1. Init => Inv
  BY TypeInit, LastInit
<1>2. Inv /\ [Next]_vars => Inv'
  BY TypeStep, LastStep, LastKept
<1> QED BY <1>1, <1>2, PTL DEF Spec

=============================================================================
