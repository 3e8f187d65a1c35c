------------------------------ MODULE Lowering ------------------------------
(***************************************************************************)
(* From the tables of an interface description to the ordered methods and  *)
(* signals of a service.  A property is lowered to a signal and, as its    *)
(* access says, to methods; they are written into the service's tables,    *)
(* over what the interface declares by the same names.  The position of a  *)
(* method in its table is its number on the wire.                          *)
(***************************************************************************)
EXTENDS Naturals, Sequences, SequencesExt, FiniteSets

CONSTANTS
  Stem,      \* words that names are made of
  Type,      \* types of properties
  Methods,   \* what may be declared in the rpc table, as sequences of names
  Signals,   \* what may be declared in the signal table, likewise
  Keys       \* what properties may be declared, as sequences of keys

(***************************************************************************)
(* Names.  A plain name is a word that begins with a lower-case or an      *)
(* upper-case letter; the others are made of a word the way the code makes *)
(* them, so that "setActive" is one name whether it is declared or derived.*)
(***************************************************************************)
Key == [form : {"plain"}, stem : Stem, upper : BOOLEAN]
Name == Key \cup [form : {"set", "toggle", "changed"}, stem : Stem]

SetName(key) == [form |-> "set", stem |-> key.stem]
ToggleName(key) == [form |-> "toggle", stem |-> key.stem]
ChangedName(key) == [form |-> "changed", stem |-> key.stem]

\* What a method or signal takes: what its declaration says, a property's value
\* or nothing.
Declared == "declared"
Nothing == "nothing"
Takes == Type \cup {Declared, Nothing}
Entry == [name : Name, takes : Takes]

\* The accesses that descriptions use.  A property that is just a type is short for
\* one with access "read-write".
Access == {"read-only", "read-write", "read-write-toggle"}
ShortAccess == "short"
Writable == {"read-write", "read-write-toggle"}
Togglable == {"read-write-toggle"}

ASSUME LoweringAssumption ==
  /\ {Declared, Nothing} \cap Type = {}
  /\ \A m \in Methods : m \in Seq(Name) /\ IsInjective(m)
  /\ \A s \in Signals : s \in Seq(Name) /\ IsInjective(s)
  /\ \A k \in Keys : k \in Seq(Key) /\ IsInjective(k)

VARIABLES
  properties,   \* the properties, in the order of the description
  rpc,          \* the service's methods, in the order of its table
  signal,       \* the service's signals, likewise
  sections,     \* which of the tables "rpc" and "signal" the service has
  lowered,      \* how many properties are lowered
  phase         \* "shorthand", "lower" or "done"

vars == <<properties, rpc, signal, sections, lowered, phase>>

AsDeclared(names) == [k \in DOMAIN names |-> [name |-> names[k], takes |-> Declared]]

TablesHaveSections ==
  /\ rpc # <<>> => "rpc" \in sections
  /\ signal # <<>> => "signal" \in sections

Init ==
  /\ \E m \in Methods : rpc = AsDeclared(m)
  /\ \E s \in Signals : signal = AsDeclared(s)
  /\ \E keys \in Keys : \E type \in [DOMAIN keys -> Type], access \in [DOMAIN keys -> Access \cup {ShortAccess}] :
       properties = [k \in DOMAIN keys |-> [key |-> keys[k], type |-> type[k], access |-> access[k]]]
  /\ sections \in SUBSET {"rpc", "signal"}   \* a table may be there and empty
  /\ TablesHaveSections
  /\ lowered = 0
  /\ phase = "shorthand"

\* Mutants of Update: what is there is left as it is; it is taken out first; it is
\* not looked at.
Update_KeepsDeclared(table, entry) ==
  IF \E k \in DOMAIN table : table[k].name = entry.name THEN table ELSE Append(table, entry)

Update_Reinserts(table, entry) ==
  Append(SelectSeq(table, LAMBDA e : e.name # entry.name), entry)

Update_Appends(table, entry) == Append(table, entry)

\* dict.update: an entry that is there keeps its place.
Update(table, entry) ==
  IF \E k \in DOMAIN table : table[k].name = entry.name
  THEN [k \in DOMAIN table |-> IF table[k].name = entry.name THEN entry ELSE table[k]]
  ELSE Append(table, entry)

\* The first loop: every property gets a table.
ExpandShorthand ==
  /\ phase = "shorthand"
  /\ properties' = [k \in DOMAIN properties |->
       IF properties[k].access = ShortAccess THEN [properties[k] EXCEPT !.access = "read-write"] ELSE properties[k]]
  /\ phase' = "lower"
  /\ UNCHANGED <<rpc, signal, sections, lowered>>

\* The second loop's body.
WithSetter(table, p) ==
  IF p.access \in Writable THEN Update(table, [name |-> SetName(p.key), takes |-> p.type]) ELSE table

WithToggle(table, p) ==
  IF p.access \in Togglable THEN Update(table, [name |-> ToggleName(p.key), takes |-> Nothing]) ELSE table

LowerProperty ==
  /\ phase = "lower"
  /\ lowered < Len(properties)
  /\ LET p == properties[lowered + 1]
     IN /\ signal' = Update(signal, [name |-> ChangedName(p.key), takes |-> p.type])
        /\ rpc' = WithToggle(WithSetter(rpc, p), p)
        /\ sections' = sections \cup {"signal"} \cup (IF p.access \in Writable THEN {"rpc"} ELSE {})
  /\ lowered' = lowered + 1
  /\ UNCHANGED <<properties, phase>>

\* All properties are lowered: build_protocol numbers the methods.
Build ==
  /\ phase = "lower"
  /\ lowered = Len(properties)
  /\ phase' = "done"
  /\ UNCHANGED <<properties, rpc, signal, sections, lowered>>

Next == ExpandShorthand \/ LowerProperty \/ Build

Spec == Init /\ [][Next]_vars

-----------------------------------------------------------------------------
TypeOK ==
  /\ properties \in Seq([key : Key, type : Type,
                         access : IF phase = "shorthand" THEN Access \cup {ShortAccess} ELSE Access])
  /\ rpc \in Seq(Entry) /\ signal \in Seq(Entry)
  /\ sections \subseteq {"rpc", "signal"}
  /\ lowered \in 0..Len(properties)
  /\ phase \in {"shorthand", "lower", "done"}

Names(table) == [k \in DOMAIN table |-> table[k].name]

\* No name is twice in a table, though descriptions may declare what properties
\* derive; and every table with something in it is a section of the service, so
\* that code is generated for it.
OneEntryPerName ==
  /\ IsInjective(Names(rpc)) /\ IsInjective(Names(signal))
  /\ TablesHaveSections

\* The numbers of the methods are part of the protocol: none changes when another
\* property is lowered, whatever the property's methods are called, and so none
\* changes when an interface gets another property behind those it has.
NumbersKept ==
  [][IsPrefix(Names(rpc), Names(rpc')) /\ IsPrefix(Names(signal), Names(signal'))]_vars

\* The properties, of those that were lowered, that derive a method or a signal.
MethodsOf(p) ==
  (IF p.access \in Writable THEN {SetName(p.key)} ELSE {})
    \cup (IF p.access \in Togglable THEN {ToggleName(p.key)} ELSE {})

DerivingMethod(name) == {k \in 1..lowered : name \in MethodsOf(properties[k])}
DerivingSignal(name) == {k \in 1..lowered : name = ChangedName(properties[k].key)}

\* What the last of them says.
Says(name, deriving) ==
  IF deriving = {} THEN Declared
  ELSE IF name.form = "toggle" THEN Nothing
  ELSE properties[Max(deriving)].type

\* What a table says of a name is the word of the last property that derives it
\* there, and the declaration's if none does; and whatever a property derives is there.
LastPropertyWins ==
  /\ \A k \in DOMAIN rpc : rpc[k].takes = Says(rpc[k].name, DerivingMethod(rpc[k].name))
  /\ \A k \in DOMAIN signal : signal[k].takes = Says(signal[k].name, DerivingSignal(signal[k].name))
  /\ \A k \in 1..lowered :
       /\ MethodsOf(properties[k]) \subseteq {rpc[j].name : j \in DOMAIN rpc}
       /\ ChangedName(properties[k].key) \in {signal[j].name : j \in DOMAIN signal}

=============================================================================
