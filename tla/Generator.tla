----------------------------- MODULE Generator -----------------------------
(***************************************************************************)
(* The compiler: generate renders an interface in the language it is told  *)
(* to, with the backend of that language, and writes what was rendered if  *)
(* the backend did not raise.  The Python backend is PythonBindings, the   *)
(* C++ backend CppBindings.                                                *)
(***************************************************************************)
EXTENDS PythonBindings

CONSTANTS
  Descriptions,   \* what is described for the C++ backend
  Vocabulary      \* and the words of its names

VARIABLES
  language,   \* "python" or "cpp"
  output,     \* "none", "failed", or the language of the files in the output directory
  iface, files, declared, defined, used   \* the C++ backend's

cppVars == <<iface, files, declared, defined, used>>

Cpp == INSTANCE CppBindings

ASSUME GeneratorAssumption ==
  /\ {"_", "__", "set", "toggle", "changed"} \subseteq Vocabulary
  /\ Descriptions \subseteq SUBSET Cpp!Entity
  /\ \A d \in Descriptions : \A e, f \in d : Cpp!SameEntry(e, f) => e = f

PythonIdle ==
  /\ interface = <<>> /\ next = 1 /\ symbols = ModuleSymbols
  /\ methods = <<>> /\ signals = <<>> /\ status = "done"

CppIdle ==
  /\ iface = {} /\ files = <<>>
  /\ declared = <<>> /\ defined = <<>> /\ used = <<>>

\* The options name the language and the description.
Start ==
  /\ output = "none"
  /\ \/ language = "python" /\ Init /\ CppIdle
     \/ language = "cpp" /\ Cpp!Init /\ PythonIdle

RenderPython ==
  /\ language = "python"
  /\ Next
  /\ UNCHANGED <<language, output, cppVars>>

RenderCpp ==
  /\ language = "cpp"
  /\ Cpp!Next
  /\ UNCHANGED <<language, output, vars>>

\* What the C++ backend raises ends the generator before anything is written.
FailCpp ==
  /\ language = "cpp" /\ output = "none"
  /\ Cpp!Rendered = Cpp!File \ {"QObjectClient.cpp"}
  /\ Cpp!Raises
  /\ output' = "failed"
  /\ UNCHANGED <<language, vars, cppVars>>

\* All files are there before the first is written.
Rendered == IF language = "python" THEN status = "done" ELSE Cpp!Done

Write ==
  /\ output = "none"
  /\ Rendered
  /\ output' = language
  /\ UNCHANGED <<language, vars, cppVars>>

Step == RenderPython \/ RenderCpp \/ FailCpp \/ Write

Generate == Start /\ [][Step]_<<language, output, vars, cppVars>>

-----------------------------------------------------------------------------
(* What the C++ backend promises; see there.                               *)

\* What a file has was made of the interface, by its language's backend only.
TypesOK ==
  /\ language \in {"python", "cpp"} /\ output \in {"none", "failed", language}
  /\ TypeOK
  /\ IF language = "cpp" THEN Cpp!TypeOK ELSE CppIdle

\* Every name in the generated C++ files is declared where it is looked for.
NamesResolve == language = "cpp" => Cpp!NamesResolve

\* Every member function the C++ files declare is defined once.
DefinedOnce == language = "cpp" => Cpp!DefinedOnce

\* Names of the C++ files clash only where the interface's do.
ClashesForCause == language = "cpp" => Cpp!ClashesForCause

=============================================================================
