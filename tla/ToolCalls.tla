----------------------------- MODULE ToolCalls ------------------------------
(***************************************************************************)
(* The arguments of a tool call: the schema that tools/list publishes      *)
(* (mcp_tools.go), and what handleToolCall makes of arguments before a     *)
(* tool looks at a file (mcp.go, edit.go): the decoder of encoding/json    *)
(* without unknown fields but whatever the case of their names, the zero   *)
(* value of a field that is not given, the checks of the shape. A          *)
(* behaviour is one call. Of the strings there are "", " ", two lines of   *)
(* text, "lines" for one with a line break, and the names of the           *)
(* operations.                                                             *)
(***************************************************************************)
EXTENDS Integers, Sequences, SequencesExt

CONSTANTS
  Calls,           \* the requests tools/call: [tool, id, params, arguments]
  MaxOperations,   \* of one request, 100 in the code
  Fold(_)          \* the name of a property without its case

ASSUME OperationsAssumption == MaxOperations \in Nat \ {0}

(* JSON values. An object is a function of its properties. An integer is   *)
(* written with digits only and fits 64 bits; written 1.0 or 1e0, or too   *)
(* large, it is a "number".                                                *)
Null == [json |-> "null"]
Text(s) == [json |-> "string", value |-> s]
Number(n) == [json |-> "integer", value |-> n]
Exponent(n) == [json |-> "number", value |-> n]
Bool(b) == [json |-> "boolean", value |-> b]
Array(s) == [json |-> "array", value |-> s]
Object(f) == [json |-> "object", value |-> f]

(* What a request may hold: JSON, as deep as the tools look into it. No    *)
(* object names one field twice, in one spelling or in two.                *)
IsValue(v) ==
  /\ v.json = "null" => v = Null
  /\ v.json = "string" => v.value \in STRING
  /\ v.json \in {"integer", "number"} => v.value \in Int
  /\ v.json = "boolean" => v.value \in BOOLEAN
  /\ v.json = "array" => Len(v.value) \in Nat /\ DOMAIN v.value = 1..Len(v.value)

IsObject(v) ==
  /\ IsValue(v)
  /\ v.json = "object" => \A p \in DOMAIN v.value :
       IsValue(v.value[p]) /\ \A q \in DOMAIN v.value : Fold(p) = Fold(q) => p = q

IsArguments(v) ==
  /\ IsObject(v)
  /\ v.json = "object" => \A p \in DOMAIN v.value :
       v.value[p].json = "array" => \A o \in ToSet(v.value[p].value) : IsObject(o)

ASSUME CallsAssumption ==
  \A c \in Calls : c.id \in BOOLEAN /\ IsArguments(c.arguments)

VARIABLES
  call,      \* the request being handled
  outcome,   \* "none", "ignored", "bad params", "refused", "tried"
  fields     \* what the tool that is tried works with

callVars == <<call, outcome, fields>>

-----------------------------------------------------------------------------
(* The published schema.                                                   *)
Tools == {"clipfit_preview", "clipfit_apply", "clipfit_edit", "clipfit_create", "clipfit_rollback"}

TypeOf ==
  [path |-> "string", preview_id |-> "string", content |-> "string",
   create_parents |-> "boolean", operations |-> "array",
   type |-> "string", anchor |-> "string", find |-> "string", replace |-> "string",
   expected_matches |-> "integer"]

(* The fields of the decoder are spelled in lower case.                    *)
ASSUME FoldAssumption == \A p \in DOMAIN TypeOf : Fold(p) = p

Required(tool) ==
  CASE tool \in {"clipfit_preview", "clipfit_edit"} -> {"path", "operations"}
    [] tool = "clipfit_apply" -> {"preview_id"}
    [] tool = "clipfit_create" -> {"path", "content"}
    [] tool = "clipfit_rollback" -> {"path"}
    [] tool = "operation" -> {"type", "find", "replace"}

Optional(tool) ==
  CASE tool = "clipfit_create" -> {"create_parents"}
    [] tool = "operation" -> {"anchor", "expected_matches"}
    [] OTHER -> {}

Declared(tool) == Required(tool) \cup Optional(tool)

OperationTypes == {"replace_block", "replace", "replace_suffix", "swap_name"}

Typed(tool, object) ==
  \A p \in DOMAIN object :
    /\ p \in Declared(tool)
    /\ object[p].json = TypeOf[p] \/ (TypeOf[p] = "integer" /\ object[p].json = "number")

AdmitsOperation(o) ==
  /\ o.json = "object" /\ Typed("operation", o.value)
  /\ Required("operation") \subseteq DOMAIN o.value
  /\ o.value.type.value \in OperationTypes
  /\ o.value.find.value # ""
  /\ "expected_matches" \in DOMAIN o.value => o.value.expected_matches.value >= 1

Admits(tool, object) ==
  /\ tool \in Tools
  /\ Typed(tool, object) /\ Required(tool) \subseteq DOMAIN object
  /\ tool = "clipfit_apply" => object.preview_id.value # ""
  /\ "operations" \in DOMAIN object =>
       /\ Len(object.operations.value) \in 1..MaxOperations
       /\ \A o \in ToSet(object.operations.value) : AdmitsOperation(o)

-----------------------------------------------------------------------------
(* The decoder. A property belongs to the field of its name, or else of    *)
(* its name without case, also under DisallowUnknownFields. A field that   *)
(* is absent or null keeps its zero value, which for a pointer is nil: the *)
(* set of its values is empty.                                             *)
Pointers == {"create_parents", "expected_matches"}

Zero(p) ==
  CASE p \in Pointers -> {}
    [] p = "operations" -> <<>>
    [] OTHER -> ""

Gives(object, q, p) == Fold(q) = p /\ object[q] # Null

Given(object, p) == \E q \in DOMAIN object : Gives(object, q, p)

ValueOf(object, p) == object[CHOOSE q \in DOMAIN object : Gives(object, q, p)].value

\* Mutant of Decodes: unknown fields are let pass.
DecodesUnknown(tool, object) ==
  \A p \in DOMAIN object :
    Fold(p) \in Declared(tool) => object[p] = Null \/ object[p].json = TypeOf[Fold(p)]

\* Mutant of Decodes: a field that is null or absent is an error.
DecodesAllGiven(tool, object) ==
  /\ \A p \in DOMAIN object : Fold(p) \in Declared(tool) /\ object[p].json = TypeOf[Fold(p)]
  /\ \A p \in Declared(tool) : Given(object, p)

Decodes(tool, object) ==
  \A p \in DOMAIN object :
    Fold(p) \in Declared(tool) /\ (object[p] = Null \/ object[p].json = TypeOf[Fold(p)])

Field(object, p) ==
  IF ~Given(object, p) THEN Zero(p)
  ELSE IF p \in Pointers THEN {ValueOf(object, p)} ELSE ValueOf(object, p)

OperationDecodes(o) == o = Null \/ (o.json = "object" /\ Decodes("operation", o.value))

Operation(o) ==
  [p \in Declared("operation") |-> IF o = Null THEN Zero(p) ELSE Field(o.value, p)]

(* decodeMCPArgs: the fields, in a set that is empty after an error.       *)
decodeMCPArgs(tool, object) ==
  IF \/ ~Decodes(tool, object)
     \/ "operations" \in Declared(tool)
        /\ \E o \in ToSet(Field(object, "operations")) : ~OperationDecodes(o)
  THEN {}
  ELSE {[p \in Declared(tool) |->
           IF p # "operations" THEN Field(object, p)
           ELSE [i \in DOMAIN Field(object, p) |-> Operation(Field(object, p)[i])]]}

-----------------------------------------------------------------------------
(* The checks. The type of an operation may be left out; case and spaces   *)
(* around it do not count.                                                 *)
Kind(op) ==
  CASE op.type \in {"", " ", "REPLACE_BLOCK"} -> "replace_block"
    [] op.type \in OperationTypes -> op.type
    [] OTHER -> "unsupported"

IsBlank(s) == s \in {"", " "}

OneOrOmitted(op) == op.expected_matches \subseteq {1}

ShapeOK(op) ==
  /\ op.find # "" /\ \A n \in op.expected_matches : n >= 1
  /\ CASE Kind(op) = "replace_block" -> ~IsBlank(op.find) /\ (IsBlank(op.anchor) \/ OneOrOmitted(op))
       [] Kind(op) = "replace" -> IsBlank(op.anchor) /\ "lines" \notin {op.find, op.replace}
       [] Kind(op) = "replace_suffix" -> IsBlank(op.anchor) /\ OneOrOmitted(op)
       [] Kind(op) = "swap_name" ->
            IsBlank(op.anchor) /\ ~IsBlank(op.find) /\ ~IsBlank(op.replace) /\ op.find # op.replace
       [] OTHER -> FALSE

Passes(tool, f) ==
  CASE tool = "clipfit_apply" -> ~IsBlank(f.preview_id)
    [] tool \in {"clipfit_create", "clipfit_rollback"} -> ~IsBlank(f.path)
    [] OTHER -> /\ ~IsBlank(f.path) /\ Len(f.operations) \in 1..MaxOperations
                /\ \A op \in ToSet(f.operations) : ShapeOK(op)

CallInit == call \in Calls /\ outcome = "none" /\ fields = {}

(* handleToolCall up to the call of the tool. The shape of an operation is *)
(* checked when those before it have been applied in memory, which changes *)
(* no file. A null for the arguments gives no field.                       *)
handleToolCall ==
  /\ outcome = "none"
  /\ LET object == IF call.arguments = Null THEN <<>> ELSE call.arguments.value
         known == call.tool \in Tools /\ call.arguments.json \in {"null", "object"}
     IN fields' = IF ~call.id \/ call.params # "object" \/ ~known THEN {}
                  ELSE {f \in decodeMCPArgs(call.tool, object) : Passes(call.tool, f)}
  /\ outcome' = CASE ~call.id -> "ignored"
                  [] call.id /\ call.params # "object" -> "bad params"
                  [] call.id /\ call.params = "object" -> IF fields' = {} THEN "refused" ELSE "tried"
  /\ UNCHANGED call

CallNext == handleToolCall

CallSpec == CallInit /\ [][CallNext]_callVars

-----------------------------------------------------------------------------
(* A tool that is tried works with all its fields, each of its own type:   *)
(* no null gets through.                                                   *)
FieldOK(p, v) ==
  CASE p = "create_parents" -> v \in SUBSET BOOLEAN
    [] p = "expected_matches" -> v \in SUBSET Nat
    [] OTHER -> v \in {""} \cup STRING

CallTypeOK ==
  /\ outcome \in {"none", "ignored", "bad params", "refused", "tried"}
  /\ outcome # "tried" => fields = {}
  /\ \A f \in fields :
       /\ DOMAIN f = Declared(call.tool)
       /\ \A p \in DOMAIN f \ {"operations"} : FieldOK(p, f[p])
       /\ "operations" \in DOMAIN f =>
            \A op \in ToSet(f.operations), p \in Declared("operation") : FieldOK(p, op[p])

(* Only a request with an id is tried, and of its properties none is lost: *)
(* each belongs to a declared one, up to case, with its type or null, at   *)
(* both levels. A misspelled property is an error and never a default      *)
(* (mcp.go:366-380), but PATH is path, although the schema has             *)
(* additionalProperties false.                                             *)
DeclaredOnly ==
  outcome = "tried" =>
    LET declared(tool, object) ==
          \A p \in DOMAIN object :
            Fold(p) \in Declared(tool) /\ object[p].json \in {"null", TypeOf[Fold(p)]}
        object == call.arguments.value
    IN /\ call.id /\ call.tool \in Tools
       /\ declared(call.tool, object)
       /\ \A p \in DOMAIN object : Fold(p) = "operations" =>
            \A o \in ToSet(object[p].value) : o.json = "object" /\ declared("operation", o.value)

(* What the descriptions in the schema ask for beyond its types: one line  *)
(* for replace, an anchor for replace_block alone, one match with an       *)
(* anchor and for a suffix, two names to swap, and no blank names. And     *)
(* what they do not say: a count is written with digits, since for the     *)
(* decoder 1.0 is no integer.                                              *)
Sensible(o) ==
  LET anchored == "anchor" \in DOMAIN o /\ ~IsBlank(o.anchor.value)
      is(type) == o.type.value = type
  IN /\ anchored => is("replace_block")
     /\ is("replace") => {o.find.value, o.replace.value} \cap {"lines"} = {}
     /\ is("replace_block") => ~IsBlank(o.find.value)
     /\ is("swap_name") => /\ o.find.value # o.replace.value
                           /\ ~IsBlank(o.find.value) /\ ~IsBlank(o.replace.value)
     /\ (anchored \/ is("replace_suffix")) /\ "expected_matches" \in DOMAIN o
          => o.expected_matches.value = 1
     /\ "expected_matches" \in DOMAIN o => o.expected_matches.json = "integer"

(* A client that keeps to the schema and its descriptions gets past the    *)
(* decoder and the checks, with every property as it gave it.              *)
AdmittedIsTried ==
  /\ outcome # "none" /\ call.id /\ call.params = "object" /\ call.arguments.json = "object"
  /\ Admits(call.tool, call.arguments.value)
  /\ \A p \in {"path", "preview_id"} \cap DOMAIN call.arguments.value :
       ~IsBlank(call.arguments.value[p].value)
  /\ "operations" \in DOMAIN call.arguments.value =>
       \A o \in ToSet(call.arguments.value.operations.value) : Sensible(o.value)
  => /\ outcome = "tried"
     /\ \A f \in fields, p \in DOMAIN call.arguments.value \ {"operations", "create_parents"} :
          f[p] = call.arguments.value[p].value

(* The schema that is published and the decoder and checks behind it agree *)
(* on the properties that are given, in both directions, but for the case  *)
(* of a name and the spelling of an integer. Of those that are not given   *)
(* only the checks of their zero values know: an operation without replace *)
(* deletes, although the schema requires replace.                          *)
SchemaIsKept == DeclaredOnly /\ AdmittedIsTried
=============================================================================
