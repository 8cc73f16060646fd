-------------------------- MODULE PatchToDiffProofs ---------------------------
(***************************************************************************)
(* Theorems about the composition of ToolCalls, KissParser, EditOps and    *)
(* LineDiff, and about each of them but EditOps alone, for any calls,        *)
(* patches and texts.                                                      *)
(*                                                                         *)
(* A call: OneCall says that the outcome is what the decoder and the checks *)
(* give for the arguments; that the schema and they agree is then a fact   *)
(* about every value the arguments can have, field by field.               *)
(*                                                                         *)
(* The parser: Inv keeps what it has read quoted and in order. KeepsUp     *)
(* compares it with the reference Written, line by line: outside of a command *)
(* the commands are what was written so far, and inside of one each list   *)
(* holds the part of the patch that is open. So, when the patch ends, every *)
(* whole command was parsed and nothing else.                              *)
(*                                                                         *)
(* The diff: the frontiers of the search are those of the textbook distance,*)
(* so the way back stays inside of both texts and the script found is a    *)
(* shortest one. The hunks are that script cut up, and put in place of the *)
(* lines they name they turn one text into the other.                      *)
(*                                                                         *)
(* The composition: a step of it is a step of each part or leaves that part *)
(* alone, so what is proved of a part alone holds of it here.              *)
(***************************************************************************)
EXTENDS MCPatchToDiff, EditOpsProofs

(* What handleToolCall made of the call: the fields, and the outcome.      *)
Handled ==
  LET object == IF call.arguments = Null THEN <<>> ELSE call.arguments.value
      known == call.tool \in Tools /\ call.arguments.json \in {"null", "object"}
  IN /\ fields = IF ~call.id \/ call.params # "object" \/ ~known THEN {}
                 ELSE {f \in decodeMCPArgs(call.tool, object) : Passes(call.tool, f)}
     /\ ~call.id => outcome = "ignored"
     /\ call.id /\ call.params # "object" => outcome = "bad params"
     /\ call.id /\ call.params = "object" => outcome = IF fields = {} THEN "refused" ELSE "tried"

OneCall ==
  /\ call \in Calls
  /\ outcome = "none" => fields = {}
  /\ outcome # "none" => Handled

(* Either the call waits, or its outcome is what the dispatch says.        *)
LEMMA CallIsHandled == CallSpec => []OneCall
<1>1. CallInit => OneCall
  BY DEF CallInit, OneCall
<1>2. OneCall /\ [CallNext]_callVars => OneCall'
  <2>1. ASSUME OneCall, handleToolCall PROVE OneCall'
    <3>1. call \in Calls /\ call' = call /\ call.id \in BOOLEAN
      BY <2>1, CallsAssumption DEF OneCall, handleToolCall
    <3>. DEFINE object == IF call.arguments = Null THEN <<>> ELSE call.arguments.value
                known == call.tool \in Tools /\ call.arguments.json \in {"null", "object"}
    <3>2. fields' = IF ~call.id \/ call.params # "object" \/ ~known THEN {}
                    ELSE {f \in decodeMCPArgs(call.tool, object) : Passes(call.tool, f)}
      BY <2>1, Zenon DEF handleToolCall
    <3>3. outcome' = CASE ~call.id -> "ignored"
                  [] call.id /\ call.params # "object" -> "bad params"
                  [] call.id /\ call.params = "object" -> IF fields' = {} THEN "refused" ELSE "tried"
      BY <2>1, Zenon DEF handleToolCall
    <3>4. ~call.id => outcome' = "ignored"
      BY <3>3, Zenon
    <3>5. call.id /\ call.params # "object" => outcome' = "bad params"
      BY <3>3, Zenon
    <3>6. call.id /\ call.params = "object" => outcome' = IF fields' = {} THEN "refused" ELSE "tried"
      BY <3>3, Zenon
    <3>7. outcome' # "none"
      BY <3>1, <3>4, <3>5, <3>6
    <3>8. Handled'
      BY <3>1, <3>2, <3>4, <3>5, <3>6, Zenon DEF Handled
    <3>. QED  BY <3>1, <3>7, <3>8 DEF OneCall
  <2>2. ASSUME OneCall, UNCHANGED callVars PROVE OneCall'
    BY <2>2 DEF OneCall, callVars, Handled
  <2>. QED  BY <2>1, <2>2 DEF CallNext
<1>. QED  BY <1>1, <1>2, PTL DEF CallSpec

-----------------------------------------------------------------------------
(* The schema, tool by tool.                                               *)
LEMMA Declarations ==
  /\ \A tool \in {"clipfit_preview", "clipfit_edit"} :
       Required(tool) = {"path", "operations"} /\ Declared(tool) = {"path", "operations"}
  /\ Required("clipfit_apply") = {"preview_id"} /\ Declared("clipfit_apply") = {"preview_id"}
  /\ Required("clipfit_create") = {"path", "content"}
  /\ Declared("clipfit_create") = {"path", "content", "create_parents"}
  /\ Required("clipfit_rollback") = {"path"} /\ Declared("clipfit_rollback") = {"path"}
  /\ Required("operation") = {"type", "find", "replace"}
  /\ Declared("operation") = {"type", "find", "replace", "anchor", "expected_matches"}
<1>1. ASSUME NEW tool \in {"clipfit_preview", "clipfit_edit"}
      PROVE  Required(tool) = {"path", "operations"} /\ Optional(tool) = {}
  <2>1. CASE tool = "clipfit_preview"
    BY <2>1, Zenon DEF Required, Optional
  <2>2. CASE tool = "clipfit_edit"
    BY <2>2, Zenon DEF Required, Optional
  <2>. QED  BY <1>1, <2>1, <2>2
<1>2. Required("clipfit_apply") = {"preview_id"} /\ Optional("clipfit_apply") = {}
  BY Zenon DEF Required, Optional
<1>3. Required("clipfit_create") = {"path", "content"} /\ Optional("clipfit_create") = {"create_parents"}
  BY Zenon DEF Required, Optional
<1>4. Required("clipfit_rollback") = {"path"} /\ Optional("clipfit_rollback") = {}
  BY Zenon DEF Required, Optional
<1>5. Required("operation") = {"type", "find", "replace"} /\ Optional("operation") = {"anchor", "expected_matches"}
  BY Zenon DEF Required, Optional
<1>. QED  BY <1>1, <1>2, <1>3, <1>4, <1>5 DEF Declared

(* What each name of the schema stands for.                                *)
LEMMA TypesOfNames ==
  /\ \A p \in {"path", "preview_id", "content", "type", "anchor", "find", "replace"} :
       TypeOf[p] = "string" /\ Zero(p) = ""
  /\ TypeOf["create_parents"] = "boolean" /\ Zero("create_parents") = {}
  /\ TypeOf["expected_matches"] = "integer" /\ Zero("expected_matches") = {}
  /\ TypeOf["operations"] = "array" /\ Zero("operations") = <<>>
<1>1. \A p \in {"path", "preview_id", "content", "type", "anchor", "find", "replace"} : TypeOf[p] = "string"
  BY DEF TypeOf
<1>2. /\ TypeOf["create_parents"] = "boolean" /\ TypeOf["expected_matches"] = "integer"
      /\ TypeOf["operations"] = "array"
  BY DEF TypeOf
<1>3. Zero("create_parents") = {} /\ Zero("expected_matches") = {} /\ Zero("operations") = <<>>
  BY Zenon DEF Zero, Pointers
<1>4. ASSUME NEW p \in {"path", "preview_id", "content", "type", "anchor", "find", "replace"}
      PROVE  Zero(p) = ""
  <2>1. p \notin Pointers /\ p # "operations"
    BY DEF Pointers
  <2>. QED  BY <2>1, Zenon DEF Zero
<1>. QED  BY <1>1, <1>2, <1>3, <1>4

(* What the decoder makes of one property.                                 *)
FieldTyped(p, v) ==
  CASE p = "create_parents" -> v \in SUBSET BOOLEAN
    [] p = "expected_matches" -> v \in SUBSET Int
    [] p = "operations" -> Len(v) \in Nat /\ DOMAIN v = 1..Len(v)
    [] OTHER -> v \in {""} \cup STRING

PropertyNames ==
  {"path", "preview_id", "content", "type", "anchor", "find", "replace",
   "create_parents", "expected_matches", "operations"}

(* A tool declares names of the schema only.                               *)
LEMMA DeclaredAreNames ==
  ASSUME NEW tool \in Tools \cup {"operation"}
  PROVE  Declared(tool) \subseteq PropertyNames
BY Declarations DEF Tools, PropertyNames

(* The value that a field gets is one of the object, whatever the case of  *)
(* its name.                                                               *)
LEMMA GivenByOne ==
  ASSUME NEW object, NEW p, Given(object, p)
  PROVE  \E q \in DOMAIN object :
           Fold(q) = p /\ object[q] # Null /\ ValueOf(object, p) = object[q].value
<1>1. \E q \in DOMAIN object : Gives(object, q, p)
  BY DEF Given
<1>. DEFINE r == CHOOSE q \in DOMAIN object : Gives(object, q, p)
<1>2. r \in DOMAIN object /\ Gives(object, r, p)
  BY <1>1, Zenon
<1>3. ValueOf(object, p) = object[r].value
  BY Zenon DEF ValueOf
<1>4. Fold(r) = p /\ object[r] # Null
  BY <1>2, Zenon DEF Gives
<1>. HIDE DEF r
<1>. QED  BY <1>2, <1>3, <1>4

(* A declared field of decoded arguments has its type.                     *)
LEMMA FieldIsTyped ==
  ASSUME NEW tool \in Tools \cup {"operation"}, NEW object, Decodes(tool, object),
         \A p \in DOMAIN object : IsValue(object[p]), NEW p \in Declared(tool)
  PROVE  FieldTyped(p, Field(object, p))
<1>1. p \in PropertyNames
  BY DeclaredAreNames
<1>2. CASE ~Given(object, p)
  <2>1. Field(object, p) = Zero(p)
    BY <1>2 DEF Field
  <2>2. CASE p \in {"path", "preview_id", "content", "type", "anchor", "find", "replace"}
    <3>1. p \notin {"create_parents", "expected_matches", "operations"}
      BY <2>2
    <3>2. Zero(p) = ""
      BY <2>2, TypesOfNames
    <3>. QED  BY <2>1, <3>1, <3>2, Zenon DEF FieldTyped
  <2>3. CASE p = "create_parents"
    BY <2>1, <2>3, TypesOfNames, Zenon DEF FieldTyped
  <2>4. CASE p = "expected_matches"
    BY <2>1, <2>4, TypesOfNames, Zenon DEF FieldTyped
  <2>5. CASE p = "operations"
    <3>1. Len(<<>>) \in Nat /\ DOMAIN <<>> = 1..Len(<<>>)
      OBVIOUS
    <3>. QED  BY <2>1, <2>5, <3>1, TypesOfNames, Zenon DEF FieldTyped
  <2>. QED  BY <1>1, <2>2, <2>3, <2>4, <2>5 DEF PropertyNames
<1>3. CASE Given(object, p)
  <2>1. PICK q \in DOMAIN object :
          Fold(q) = p /\ object[q] # Null /\ ValueOf(object, p) = object[q].value
    BY <1>3, GivenByOne
  <2>2. object[q].json = TypeOf[p] /\ IsValue(object[q])
    BY <2>1 DEF Decodes
  <2>3. CASE p \in {"path", "preview_id", "content", "type", "anchor", "find", "replace"}
    <3>1. p \notin Pointers /\ p \notin {"create_parents", "expected_matches", "operations"}
      BY <2>3 DEF Pointers
    <3>2. Field(object, p) = object[q].value
      BY <1>3, <2>1, <3>1 DEF Field
    <3>3. object[q].value \in STRING
      BY <2>1, <2>2, <2>3, TypesOfNames DEF IsValue
    <3>. QED  BY <3>1, <3>2, <3>3, Zenon DEF FieldTyped
  <2>4. CASE p = "create_parents"
    <3>1. Field(object, p) = {object[q].value} /\ object[q].value \in BOOLEAN
      BY <1>3, <2>1, <2>2, <2>4, TypesOfNames DEF Field, Pointers, IsValue
    <3>. QED  BY <2>4, <3>1, Zenon DEF FieldTyped
  <2>5. CASE p = "expected_matches"
    <3>1. Field(object, p) = {object[q].value} /\ object[q].value \in Int
      BY <1>3, <2>1, <2>2, <2>5, TypesOfNames DEF Field, Pointers, IsValue
    <3>. QED  BY <2>5, <3>1, Zenon DEF FieldTyped
  <2>6. CASE p = "operations"
    <3>1. p \notin Pointers
      BY <2>6 DEF Pointers
    <3>2. Field(object, p) = object[q].value
      BY <1>3, <2>1, <3>1 DEF Field
    <3>3. Len(object[q].value) \in Nat /\ DOMAIN object[q].value = 1..Len(object[q].value)
      BY <2>1, <2>2, <2>6, TypesOfNames DEF IsValue
    <3>. QED  BY <2>6, <3>2, <3>3, Zenon DEF FieldTyped
  <2>. QED  BY <1>1, <2>3, <2>4, <2>5, <2>6 DEF PropertyNames
<1>. QED  BY <1>2, <1>3

(* The operations of a list that decodes, each with all its fields.        *)
LEMMA OperationIsTyped ==
  ASSUME NEW o, IsObject(o), OperationDecodes(o)
  PROVE  /\ DOMAIN Operation(o) = Declared("operation")
         /\ \A p \in Declared("operation") : FieldTyped(p, Operation(o)[p])
<1>1. DOMAIN Operation(o) = Declared("operation")
  BY DEF Operation
<1>2. ASSUME NEW p \in Declared("operation")
      PROVE  FieldTyped(p, Operation(o)[p])
  <2>1. CASE o = Null
    <3>1. Operation(o)[p] = Zero(p)
      BY <2>1 DEF Operation
    <3>2. DOMAIN <<>> = {}
      OBVIOUS
    <3>3. ~Given(<<>>, p) /\ Decodes("operation", <<>>)
      BY <3>2 DEF Given, Decodes
    <3>4. Field(<<>>, p) = Zero(p)
      BY <3>3 DEF Field
    <3>5. FieldTyped(p, Field(<<>>, p))
      <4>1. \A q \in DOMAIN <<>> : IsValue(<<>>[q])
        BY <3>2
      <4>. QED  BY <3>3, <4>1, FieldIsTyped
    <3>. QED  BY <3>1, <3>4, <3>5
  <2>2. CASE o # Null
    <3>1. Operation(o)[p] = Field(o.value, p) /\ Decodes("operation", o.value) /\ o.json = "object"
      BY <2>2 DEF Operation, OperationDecodes
    <3>2. \A q \in DOMAIN o.value : IsValue(o.value[q])
      BY <3>1 DEF IsObject
    <3>. QED  BY <3>1, <3>2, FieldIsTyped
  <2>. QED  BY <2>1, <2>2
<1>. QED  BY <1>1, <1>2

(* The arguments as an object.                                             *)
ArgumentsOf(c) == IF c.arguments = Null THEN <<>> ELSE c.arguments.value

(* Arguments hold values, and their arrays objects.                        *)
LEMMA ArgumentsAreValues ==
  ASSUME NEW c \in Calls, c.arguments.json \in {"null", "object"}
  PROVE  /\ \A p \in DOMAIN ArgumentsOf(c) : IsValue(ArgumentsOf(c)[p])
         /\ \A p \in DOMAIN ArgumentsOf(c) : ArgumentsOf(c)[p].json = "array" =>
              \A o \in ToSet(ArgumentsOf(c)[p].value) : IsObject(o)
         /\ \A p, q \in DOMAIN ArgumentsOf(c) : Fold(p) = Fold(q) => p = q
<1>1. IsArguments(c.arguments)
  BY CallsAssumption
<1>2. CASE c.arguments = Null
  <2>1. DOMAIN ArgumentsOf(c) = {}
    BY <1>2 DEF ArgumentsOf
  <2>. QED  BY <2>1
<1>3. CASE c.arguments # Null
  <2>1. c.arguments.json = "object" /\ ArgumentsOf(c) = c.arguments.value
    BY <1>1, <1>3 DEF ArgumentsOf, IsArguments, IsObject, IsValue
  <2>. QED  BY <1>1, <2>1 DEF IsArguments, IsObject
<1>. QED  BY <1>2, <1>3

(* The operations of decoded arguments are objects.                        *)
LEMMA OperationsAreObjects ==
  ASSUME NEW c \in Calls, c.arguments.json \in {"null", "object"},
         NEW tool \in Tools, Decodes(tool, ArgumentsOf(c)), "operations" \in Declared(tool),
         NEW o \in ToSet(Field(ArgumentsOf(c), "operations"))
  PROVE  IsObject(o)
<1>1. CASE Given(ArgumentsOf(c), "operations")
  <2>1. PICK q \in DOMAIN ArgumentsOf(c) :
          /\ Fold(q) = "operations" /\ ArgumentsOf(c)[q] # Null
          /\ ValueOf(ArgumentsOf(c), "operations") = ArgumentsOf(c)[q].value
    BY <1>1, GivenByOne
  <2>2. ArgumentsOf(c)[q].json = "array"
    BY <2>1, TypesOfNames DEF Decodes
  <2>3. Field(ArgumentsOf(c), "operations") = ArgumentsOf(c)[q].value
    BY <1>1, <2>1 DEF Field, Pointers
  <2>. QED  BY <2>1, <2>2, <2>3, ArgumentsAreValues
<1>2. CASE ~Given(ArgumentsOf(c), "operations")
  <2>1. Field(ArgumentsOf(c), "operations") = <<>>
    BY <1>2, TypesOfNames DEF Field
  <2>2. ToSet(<<>>) = {}
    BY DEF ToSet
  <2>. QED  BY <2>1, <2>2
<1>. QED  BY <1>1, <1>2

(* What the fields of a tool that is tried are.                            *)
Decoded(c, f) ==
  /\ c.id /\ c.params = "object" /\ c.tool \in Tools /\ c.arguments.json \in {"null", "object"}
  /\ Decodes(c.tool, ArgumentsOf(c))
  /\ "operations" \in Declared(c.tool) =>
       \A o \in ToSet(Field(ArgumentsOf(c), "operations")) : OperationDecodes(o)
  /\ DOMAIN f = Declared(c.tool)
  /\ \A p \in Declared(c.tool) : p # "operations" => f[p] = Field(ArgumentsOf(c), p)
  /\ "operations" \in Declared(c.tool) =>
       f["operations"] = [i \in DOMAIN Field(ArgumentsOf(c), "operations")
                            |-> Operation(Field(ArgumentsOf(c), "operations")[i])]
  /\ Passes(c.tool, f)

(* What a handled call decoded came from its arguments.                    *)
LEMMA FieldsAreDecoded ==
  ASSUME call \in Calls, Handled, NEW f \in fields
  PROVE  Decoded(call, f)
<1>1. call.id \in BOOLEAN
  BY CallsAssumption
<1>. DEFINE object == ArgumentsOf(call)
            known == call.tool \in Tools /\ call.arguments.json \in {"null", "object"}
<1>2. fields = IF ~call.id \/ call.params # "object" \/ ~known THEN {}
               ELSE {g \in decodeMCPArgs(call.tool, object) : Passes(call.tool, g)}
  BY Zenon DEF Handled, ArgumentsOf
<1>3. call.id /\ call.params = "object" /\ known
  BY <1>1, <1>2, Zenon
<1>4. f \in decodeMCPArgs(call.tool, object) /\ Passes(call.tool, f)
  BY <1>2, <1>3
<1>. HIDE DEF object
<1>5. /\ Decodes(call.tool, object)
      /\ "operations" \in Declared(call.tool) =>
           \A o \in ToSet(Field(object, "operations")) : OperationDecodes(o)
  <2>1. decodeMCPArgs(call.tool, object) # {}
    BY <1>4
  <2>. QED  BY <2>1, Zenon DEF decodeMCPArgs
<1>6. f = [p \in Declared(call.tool) |->
             IF p # "operations" THEN Field(object, p)
             ELSE [i \in DOMAIN Field(object, p) |-> Operation(Field(object, p)[i])]]
  BY <1>4, <1>5, Zenon DEF decodeMCPArgs
<1>7. DOMAIN f = Declared(call.tool)
  BY <1>6
<1>8. \A p \in Declared(call.tool) : p # "operations" => f[p] = Field(object, p)
  BY <1>6
<1>9. "operations" \in Declared(call.tool) =>
        f["operations"] = [i \in DOMAIN Field(object, "operations") |-> Operation(Field(object, "operations")[i])]
  BY <1>6
<1>. QED  BY <1>3, <1>4, <1>5, <1>7, <1>8, <1>9 DEF Decoded, object

(* Two tools take operations.                                              *)
LEMMA ToolsWithOperations ==
  ASSUME NEW tool \in Tools, "operations" \in Declared(tool)
  PROVE  tool \in {"clipfit_preview", "clipfit_edit"}
BY Declarations DEF Tools

(* The checks of the tools with operations.                                *)
LEMMA OperationsPass ==
  ASSUME NEW tool \in {"clipfit_preview", "clipfit_edit"}, NEW f
  PROVE  Passes(tool, f) <=> /\ ~IsBlank(f.path) /\ Len(f.operations) \in 1..MaxOperations
                             /\ \A op \in ToSet(f.operations) : ShapeOK(op)
<1>1. tool # "clipfit_apply" /\ tool \notin {"clipfit_create", "clipfit_rollback"}
  OBVIOUS
<1>. QED  BY <1>1, Zenon DEF Passes

(* What was decoded has the fields the tool declares, typed.               *)
LEMMA DecodedIsTyped ==
  ASSUME NEW c \in Calls, NEW f, Decoded(c, f)
  PROVE  /\ DOMAIN f = Declared(c.tool)
         /\ \A p \in DOMAIN f \ {"operations"} : FieldOK(p, f[p])
         /\ "operations" \in DOMAIN f =>
              \A op \in ToSet(f.operations), p \in Declared("operation") : FieldOK(p, op[p])
<1>. DEFINE object == ArgumentsOf(c)
<1>1. /\ c.tool \in Tools /\ c.arguments.json \in {"null", "object"} /\ Decodes(c.tool, object)
      /\ DOMAIN f = Declared(c.tool) /\ Passes(c.tool, f)
      /\ \A p \in Declared(c.tool) : p # "operations" => f[p] = Field(object, p)
      /\ "operations" \in Declared(c.tool) =>
           f["operations"] = [i \in DOMAIN Field(object, "operations") |-> Operation(Field(object, "operations")[i])]
      /\ "operations" \in Declared(c.tool) =>
           \A o \in ToSet(Field(object, "operations")) : OperationDecodes(o)
  BY DEF Decoded
<1>2. \A p \in DOMAIN object : IsValue(object[p])
  BY <1>1, ArgumentsAreValues
<1>v. \A o \in ToSet(Field(object, "operations")) : "operations" \in Declared(c.tool) => IsObject(o)
  BY <1>1, OperationsAreObjects
<1>. HIDE DEF object
<1>3. ASSUME NEW p \in DOMAIN f \ {"operations"}
      PROVE  FieldOK(p, f[p])
  <2>1. FieldTyped(p, f[p])
    BY <1>1, <1>2, <1>3, FieldIsTyped
  <2>2. p # "expected_matches" /\ p # "operations"
    BY <1>1, <1>3, Declarations DEF Tools
  <2>. QED  BY <2>1, <2>2, Zenon DEF FieldTyped, FieldOK
<1>4. ASSUME "operations" \in DOMAIN f, NEW op \in ToSet(f.operations), NEW p \in Declared("operation")
      PROVE  FieldOK(p, op[p])
  <2>1. PICK i \in DOMAIN f.operations : op = f.operations[i]
    BY <1>4 DEF ToSet
  <2>2. i \in DOMAIN Field(object, "operations") /\ op = Operation(Field(object, "operations")[i])
    BY <1>1, <1>4, <2>1
  <2>3. Field(object, "operations")[i] \in ToSet(Field(object, "operations"))
    BY <2>2 DEF ToSet
  <2>4. FieldTyped(p, op[p])
    BY <1>1, <1>4, <1>v, <2>2, <2>3, OperationIsTyped
  <2>5. p = "expected_matches" => op[p] \in SUBSET Int
    BY <2>4, Zenon DEF FieldTyped
  <2>6. ShapeOK(op)
    <3>1. c.tool \in {"clipfit_preview", "clipfit_edit"}
      BY <1>1, <1>4, ToolsWithOperations
    <3>. QED  BY <1>1, <1>4, <3>1, OperationsPass
  <2>7. \A n \in op.expected_matches : n >= 1
    BY <2>6 DEF ShapeOK
  <2>8. p = "expected_matches" => op[p] \in SUBSET Nat
    BY <2>5, <2>7
  <2>9. p # "operations"
    BY <1>4, Declarations
  <2>. QED  BY <2>4, <2>8, <2>9, Zenon DEF FieldTyped, FieldOK
<1>. QED  BY <1>1, <1>3, <1>4

(* The outcome of a tools/call has its type: whatever was decoded holds the *)
(* fields its tool declares, each of its type (mcp_tools.go:3-138,         *)
(* mcp.go:366-379).                                                        *)
THEOREM CallTypes == CallSpec => []CallTypeOK
<1>1. OneCall => CallTypeOK
  <2>. SUFFICES ASSUME OneCall PROVE CallTypeOK
    OBVIOUS
  <2>1. CASE outcome = "none"
    <3>1. fields = {}
      BY <2>1 DEF OneCall
    <3>. QED  BY <2>1, <3>1 DEF CallTypeOK
  <2>2. CASE outcome # "none"
    <3>1. call \in Calls /\ Handled /\ call.id \in BOOLEAN
      BY <2>2, CallsAssumption DEF OneCall
    <3>2. /\ outcome \in {"none", "ignored", "bad params", "refused", "tried"}
          /\ outcome # "tried" => fields = {}
      BY <3>1 DEF Handled
    <3>3. \A f \in fields : Decoded(call, f)
      BY <3>1, FieldsAreDecoded
    <3>. QED  BY <3>1, <3>2, <3>3, DecodedIsTyped DEF CallTypeOK
  <2>. QED  BY <2>1, <2>2
<1>. QED  BY <1>1, CallIsHandled, PTL

(* Without a value for its path, or its preview, no tool is tried.         *)
LEMMA EmptyIsRefused ==
  ASSUME NEW tool \in Tools, NEW f, Passes(tool, f), DOMAIN f = Declared(tool)
  PROVE  /\ tool = "clipfit_apply" => ~IsBlank(f.preview_id)
         /\ tool # "clipfit_apply" => ~IsBlank(f.path)
<1>1. CASE tool = "clipfit_apply"
  BY <1>1, Zenon DEF Passes
<1>2. CASE tool \in {"clipfit_create", "clipfit_rollback"}
  <2>1. tool # "clipfit_apply"
    BY <1>2
  <2>. QED  BY <1>2, <2>1, Zenon DEF Passes
<1>3. CASE tool \in {"clipfit_preview", "clipfit_edit"}
  <2>1. tool # "clipfit_apply"
    BY <1>3
  <2>. QED  BY <1>3, <2>1, OperationsPass
<1>. QED  BY <1>1, <1>2, <1>3 DEF Tools

(* So null arguments are no call that passes.                              *)
LEMMA NullIsRefused ==
  ASSUME NEW c \in Calls, NEW f, Decoded(c, f)
  PROVE  c.arguments # Null /\ ArgumentsOf(c) = c.arguments.value
<1>1. SUFFICES ASSUME c.arguments = Null PROVE FALSE
  BY DEF ArgumentsOf
<1>2. DOMAIN ArgumentsOf(c) = {}
  BY <1>1 DEF ArgumentsOf
<1>3. \A p \in {"path", "preview_id"} : Field(ArgumentsOf(c), p) = ""
  BY <1>2, TypesOfNames DEF Field, Given
<1>4. c.tool \in Tools /\ Passes(c.tool, f) /\ DOMAIN f = Declared(c.tool)
      /\ \A p \in Declared(c.tool) : p # "operations" => f[p] = Field(ArgumentsOf(c), p)
  BY DEF Decoded
<1>5. IsBlank("")
  BY DEF IsBlank
<1>6. CASE c.tool = "clipfit_apply"
  <2>1. "preview_id" \in Declared(c.tool)
    BY <1>6, Declarations
  <2>2. f["preview_id"] = ""
    BY <1>3, <1>4, <2>1
  <2>. QED  BY <1>4, <1>5, <1>6, <2>2, EmptyIsRefused
<1>7. CASE c.tool # "clipfit_apply"
  <2>1. "path" \in Declared(c.tool)
    BY <1>4, <1>7, Declarations DEF Tools
  <2>2. f["path"] = ""
    BY <1>3, <1>4, <2>1
  <2>. QED  BY <1>4, <1>5, <1>7, <2>2, EmptyIsRefused
<1>. QED  BY <1>6, <1>7

(* No null gets into a list of operations.                                 *)
LEMMA NullIsNoOperation ==
  ~ShapeOK(Operation(Null))
<1>1. Operation(Null).find = ""
  BY Declarations, TypesOfNames DEF Operation
<1>. QED  BY <1>1 DEF ShapeOK

(* One half of SchemaIsKept: only what is declared is tried.               *)
LEMMA OnlyDeclaredIsTried ==
  ASSUME OneCall PROVE DeclaredOnly
<1>. SUFFICES ASSUME outcome = "tried" PROVE DeclaredOnly
  BY DEF DeclaredOnly
<1>1. call \in Calls /\ Handled /\ call.id \in BOOLEAN
  BY CallsAssumption DEF OneCall
<1>2. PICK f \in fields : TRUE
  BY <1>1 DEF Handled
<1>3. Decoded(call, f)
  BY <1>1, FieldsAreDecoded
<1>. DEFINE object == call.arguments.value
<1>4. ArgumentsOf(call) = object /\ call.arguments # Null
  BY <1>1, <1>3, NullIsRefused
<1>5. call.id /\ call.tool \in Tools /\ call.arguments.json \in {"null", "object"} /\ Decodes(call.tool, object)
  BY <1>3, <1>4 DEF Decoded
<1>6. \A p \in DOMAIN object :
        Fold(p) \in Declared(call.tool) /\ object[p].json \in {"null", TypeOf[Fold(p)]}
  BY <1>5 DEF Decodes, Null
<1>8. \A p, q \in DOMAIN object : Fold(p) = Fold(q) => p = q
  BY <1>1, <1>4, <1>5, ArgumentsAreValues
<1>7. ASSUME NEW n \in DOMAIN object, Fold(n) = "operations", NEW o \in ToSet(object[n].value)
      PROVE  o.json = "object" /\ \A p \in DOMAIN o.value :
               Fold(p) \in Declared("operation") /\ o.value[p].json \in {"null", TypeOf[Fold(p)]}
  <2>1. "operations" \in Declared(call.tool)
    BY <1>6, <1>7
  <2>2. call.tool \in {"clipfit_preview", "clipfit_edit"}
    BY <1>5, <2>1, ToolsWithOperations
  <2>3. /\ \A op \in ToSet(Field(object, "operations")) : OperationDecodes(op)
        /\ f["operations"] = [i \in DOMAIN Field(object, "operations") |-> Operation(Field(object, "operations")[i])]
        /\ Passes(call.tool, f)
    BY <1>3, <1>4, <2>1 DEF Decoded
  <2>. HIDE DEF object
  <2>4. Len(f.operations) \in 1..MaxOperations /\ \A op \in ToSet(f.operations) : ShapeOK(op)
    BY <2>2, <2>3, OperationsPass
  <2>5. Field(object, "operations") = object[n].value
    <3>1. CASE Given(object, "operations")
      <4>1. PICK q \in DOMAIN object :
              Fold(q) = "operations" /\ ValueOf(object, "operations") = object[q].value
        BY <3>1, GivenByOne
      <4>2. q = n
        BY <1>7, <1>8, <4>1 DEF object
      <4>. QED  BY <3>1, <4>1, <4>2 DEF Field, Pointers
    <3>2. CASE ~Given(object, "operations")
      <4>1. Field(object, "operations") = <<>>
        BY <3>2, TypesOfNames DEF Field
      <4>2. f.operations = <<>>
        BY <2>3, <4>1
      <4>. QED  BY <2>4, <4>2
    <3>. QED  BY <3>1, <3>2
  <2>6. PICK i \in DOMAIN object[n].value : o = object[n].value[i]
    BY <1>7 DEF ToSet, object
  <2>7. i \in DOMAIN f.operations /\ f.operations[i] = Operation(o)
    BY <2>3, <2>5, <2>6
  <2>8. ShapeOK(Operation(o))
    BY <2>4, <2>7 DEF ToSet
  <2>9. o # Null
    BY <2>8, NullIsNoOperation
  <2>10. OperationDecodes(o)
    BY <1>7, <2>3, <2>5 DEF object
  <2>11. o.json = "object" /\ Decodes("operation", o.value)
    BY <2>9, <2>10 DEF OperationDecodes
  <2>. QED  BY <2>11 DEF Decodes, Null
<1>. QED  BY <1>5, <1>6, <1>7 DEF DeclaredOnly

-----------------------------------------------------------------------------
(* What the schema admits decodes, each property to the value given, when  *)
(* integers are written as such.                                           *)
LEMMA GivenIsKept ==
  ASSUME NEW tool \in Tools \cup {"operation"}, NEW object, Typed(tool, object),
         \A p \in DOMAIN object : p = "expected_matches" => object[p].json = "integer"
  PROVE  /\ Decodes(tool, object)
         /\ \A p \in DOMAIN object : Given(object, p)
         /\ \A p : p \notin DOMAIN object => ~Given(object, p)
         /\ \A p \in DOMAIN object \ Pointers : Field(object, p) = object[p].value
         /\ \A p \in DOMAIN object \cap Pointers : Field(object, p) = {object[p].value}
<1>1. \A p \in DOMAIN object : p \in Declared(tool) /\ p \in PropertyNames
  BY DeclaredAreNames DEF Typed
<1>2. \A p \in DOMAIN object : Fold(p) = p
  <2>1. PropertyNames \subseteq DOMAIN TypeOf
    BY DEF PropertyNames, TypeOf
  <2>. QED  BY <1>1, <2>1, FoldAssumption
<1>3. \A p \in PropertyNames : TypeOf[p] = "integer" => p = "expected_matches"
  BY TypesOfNames DEF PropertyNames
<1>4. \A p \in DOMAIN object : object[p].json = TypeOf[p]
  BY <1>1, <1>3, TypesOfNames DEF Typed
<1>5. \A p \in DOMAIN object : TypeOf[p] \in {"string", "boolean", "integer", "array"}
  BY <1>1, TypesOfNames DEF PropertyNames
<1>6. \A p \in DOMAIN object : object[p] # Null
  BY <1>4, <1>5 DEF Null
<1>7. \A p : Given(object, p) <=> p \in DOMAIN object
  BY <1>2, <1>6 DEF Given, Gives
<1>8. \A p \in DOMAIN object : ValueOf(object, p) = object[p].value
  <2>. SUFFICES ASSUME NEW p \in DOMAIN object PROVE ValueOf(object, p) = object[p].value
    OBVIOUS
  <2>1. PICK q \in DOMAIN object : Fold(q) = p /\ ValueOf(object, p) = object[q].value
    BY <1>7, GivenByOne
  <2>. QED  BY <1>2, <2>1
<1>9. Decodes(tool, object)
  BY <1>1, <1>2, <1>4 DEF Decodes
<1>. QED  BY <1>7, <1>8, <1>9 DEF Field

(* The tools themselves take no integers.                                  *)
LEMMA ToolsTakeNoIntegers ==
  ASSUME NEW tool \in Tools, NEW object, Typed(tool, object)
  PROVE  \A p \in DOMAIN object : p = "expected_matches" => object[p].json = "integer"
<1>1. "expected_matches" \notin Declared(tool)
  BY Declarations DEF Tools
<1>. QED  BY <1>1 DEF Typed

(* The operation of an object that the schema admits.                      *)
LEMMA AdmittedOperation ==
  ASSUME NEW o, AdmitsOperation(o), IsObject(o), Sensible(o.value)
  PROVE  /\ OperationDecodes(o)
         /\ Operation(o).type = o.value.type.value /\ Operation(o).type \in OperationTypes
         /\ Operation(o).find = o.value.find.value /\ Operation(o).find # ""
         /\ Operation(o).replace = o.value.replace.value
         /\ Operation(o).anchor = IF "anchor" \in DOMAIN o.value THEN o.value.anchor.value ELSE ""
         /\ Operation(o).expected_matches =
              IF "expected_matches" \in DOMAIN o.value THEN {o.value.expected_matches.value} ELSE {}
         /\ \A n \in Operation(o).expected_matches : n >= 1
<1>. DEFINE object == o.value
<1>1. /\ o.json = "object" /\ Typed("operation", object) /\ {"type", "find", "replace"} \subseteq DOMAIN object
      /\ object.type.value \in OperationTypes /\ object.find.value # ""
      /\ "expected_matches" \in DOMAIN object => object.expected_matches.value >= 1
  BY Declarations DEF AdmitsOperation
<1>2. o # Null
  <2>1. o.json = "object"
    BY <1>1
  <2>. QED  BY <2>1 DEF Null
<1>3. /\ Decodes("operation", object)
      /\ \A p \in DOMAIN object \ Pointers : Field(object, p) = object[p].value
      /\ \A p \in DOMAIN object \cap Pointers : Field(object, p) = {object[p].value}
      /\ \A p : p \notin DOMAIN object => ~Given(object, p)
  <2>1. Sensible(object)
    OBVIOUS
  <2>. HIDE DEF object
  <2>2. "expected_matches" \in DOMAIN object => object.expected_matches.json = "integer"
    BY <2>1, Zenon DEF Sensible
  <2>. QED  BY <1>1, <2>2, GivenIsKept
<1>4. \A p \in Declared("operation") : Operation(o)[p] = Field(object, p)
  BY <1>2 DEF Operation
<1>5. {"type", "find", "replace", "anchor", "expected_matches"} = Declared("operation")
  BY Declarations
<1>6. \A p : p \notin DOMAIN object => Field(object, p) = Zero(p)
  BY <1>3 DEF Field
<1>. HIDE DEF object
<1>7. /\ Operation(o).type = object.type.value /\ Operation(o).find = object.find.value
      /\ Operation(o).replace = object.replace.value
  BY <1>1, <1>3, <1>4, <1>5 DEF Pointers
<1>8. Operation(o).anchor = IF "anchor" \in DOMAIN object THEN object.anchor.value ELSE ""
  BY <1>3, <1>4, <1>5, <1>6, TypesOfNames DEF Pointers
<1>9. Operation(o).expected_matches =
        IF "expected_matches" \in DOMAIN object THEN {object.expected_matches.value} ELSE {}
  BY <1>3, <1>4, <1>5, <1>6, TypesOfNames DEF Pointers
<1>10. \A n \in Operation(o).expected_matches : n >= 1
  BY <1>1, <1>9
<1>11. OperationDecodes(o)
  BY <1>1, <1>3 DEF OperationDecodes, object
<1>. QED  BY <1>1, <1>7, <1>8, <1>9, <1>10, <1>11 DEF object

(* An operation that keeps to the schema and its descriptions.             *)
LEMMA SensibleOperationPasses ==
  ASSUME NEW o, AdmitsOperation(o), IsObject(o), Sensible(o.value)
  PROVE  ShapeOK(Operation(o))
<1>. DEFINE op == Operation(o)
            anchored == "anchor" \in DOMAIN o.value /\ ~IsBlank(o.value.anchor.value)
<1>1. /\ op.type = o.value.type.value /\ op.type \in OperationTypes
      /\ op.find = o.value.find.value /\ op.find # "" /\ op.replace = o.value.replace.value
      /\ op.anchor = IF "anchor" \in DOMAIN o.value THEN o.value.anchor.value ELSE ""
      /\ op.expected_matches =
           IF "expected_matches" \in DOMAIN o.value THEN {o.value.expected_matches.value} ELSE {}
      /\ \A n \in op.expected_matches : n >= 1
  BY AdmittedOperation
<1>2. /\ anchored => op.type = "replace_block"
      /\ op.type = "replace" => {op.find, op.replace} \cap {"lines"} = {}
      /\ op.type = "replace_block" => ~IsBlank(op.find)
      /\ op.type = "swap_name" => op.find # op.replace /\ ~IsBlank(op.find) /\ ~IsBlank(op.replace)
      /\ (anchored \/ op.type = "replace_suffix") /\ "expected_matches" \in DOMAIN o.value
           => o.value.expected_matches.value = 1
  <2>. DEFINE r == o.value
  <2>0. Sensible(r)
    OBVIOUS
  <2>. HIDE DEF r
  <2>1. LET marked == "anchor" \in DOMAIN r /\ ~IsBlank(r.anchor.value)
        IN /\ marked => r.type.value = "replace_block"
           /\ r.type.value = "replace" => {r.find.value, r.replace.value} \cap {"lines"} = {}
           /\ r.type.value = "replace_block" => ~IsBlank(r.find.value)
           /\ r.type.value = "swap_name" => /\ r.find.value # r.replace.value
                                            /\ ~IsBlank(r.find.value) /\ ~IsBlank(r.replace.value)
           /\ (marked \/ r.type.value = "replace_suffix") /\ "expected_matches" \in DOMAIN r
                => r.expected_matches.value = 1
    BY <2>0, Zenon DEF Sensible
  <2>. QED  BY <1>1, <2>1, Zenon DEF r
<1>3. ~anchored => IsBlank(op.anchor)
  BY <1>1 DEF IsBlank
<1>4. anchored \/ op.type = "replace_suffix" => OneOrOmitted(op)
  BY <1>1, <1>2 DEF OneOrOmitted
<1>5. Kind(op) = op.type
  <2>1. op.type \notin {"", " ", "REPLACE_BLOCK"}
    BY <1>1 DEF OperationTypes
  <2>. QED  BY <1>1, <2>1, Zenon DEF Kind
<1>. HIDE DEF op, anchored
<1>6. CASE op.type = "replace_block"
  <2>1. ~IsBlank(op.find) /\ (IsBlank(op.anchor) \/ OneOrOmitted(op))
    BY <1>2, <1>3, <1>4, <1>6
  <2>. QED  BY <1>1, <1>5, <1>6, <2>1, Zenon DEF ShapeOK, op
<1>7. CASE op.type = "replace"
  <2>1. IsBlank(op.anchor) /\ "lines" \notin {op.find, op.replace}
    BY <1>2, <1>3, <1>7
  <2>. QED  BY <1>1, <1>5, <1>7, <2>1, Zenon DEF ShapeOK, op
<1>8. CASE op.type = "replace_suffix"
  <2>1. IsBlank(op.anchor) /\ OneOrOmitted(op)
    BY <1>2, <1>3, <1>4, <1>8
  <2>. QED  BY <1>1, <1>5, <1>8, <2>1, Zenon DEF ShapeOK, op
<1>9. CASE op.type = "swap_name"
  <2>1. IsBlank(op.anchor) /\ ~IsBlank(op.find) /\ ~IsBlank(op.replace) /\ op.find # op.replace
    BY <1>2, <1>3, <1>9
  <2>. QED  BY <1>1, <1>5, <1>9, <2>1, Zenon DEF ShapeOK, op
<1>. QED  BY <1>1, <1>6, <1>7, <1>8, <1>9 DEF OperationTypes

(* A list whose operations are all sensible decodes and passes.            *)
LEMMA AdmittedListPasses ==
  ASSUME NEW c \in Calls, c.arguments.json = "object",
         c.tool \in {"clipfit_preview", "clipfit_edit"}, Admits(c.tool, c.arguments.value),
         \A o \in ToSet(c.arguments.value.operations.value) : Sensible(o.value)
  PROVE  LET list == Field(c.arguments.value, "operations")
         IN /\ \A o \in ToSet(list) : OperationDecodes(o)
            /\ Len([i \in DOMAIN list |-> Operation(list[i])]) \in 1..MaxOperations
            /\ \A op \in ToSet([i \in DOMAIN list |-> Operation(list[i])]) : ShapeOK(op)
<1>. DEFINE object == c.arguments.value  list == Field(object, "operations")
            all == [i \in DOMAIN list |-> Operation(list[i])]
<1>1. Typed(c.tool, object) /\ "operations" \in DOMAIN object /\ c.tool \in Tools
  BY Declarations DEF Admits
<1>2. object["operations"].json = "array"
  BY <1>1, TypesOfNames DEF Typed
<1>3. list = object.operations.value
  BY <1>1, GivenIsKept, ToolsTakeNoIntegers DEF Pointers
<1>4. IsValue(object["operations"]) /\ \A o \in ToSet(list) : IsObject(o)
  <2>1. c.arguments # Null
    BY DEF Null
  <2>2. ArgumentsOf(c) = object
    BY <2>1 DEF ArgumentsOf
  <2>. QED  BY <1>1, <1>2, <1>3, <2>2, ArgumentsAreValues
<1>5. Len(list) \in 1..MaxOperations /\ \A o \in ToSet(list) : AdmitsOperation(o)
  BY <1>1, <1>3 DEF Admits
<1>6. DOMAIN list = 1..Len(list) /\ Len(list) \in Nat
  BY <1>2, <1>3, <1>4 DEF IsValue
<1>7. \A o \in ToSet(list) : Sensible(o.value)
  BY <1>3
<1>. HIDE DEF object, list
<1>8. \A o \in ToSet(list) : OperationDecodes(o) /\ ShapeOK(Operation(o))
  BY <1>4, <1>5, <1>7, AdmittedOperation, SensibleOperationPasses
<1>9. Len(all) = Len(list)
  BY <1>6
<1>10. ASSUME NEW op \in ToSet(all) PROVE ShapeOK(op)
  <2>1. PICK i \in DOMAIN all : op = all[i]
    BY DEF ToSet
  <2>2. i \in DOMAIN list /\ op = Operation(list[i]) /\ list[i] \in ToSet(list)
    BY <2>1 DEF ToSet
  <2>. QED  BY <1>8, <2>2
<1>. QED  BY <1>5, <1>8, <1>9, <1>10 DEF list, object

(* Arguments the schema admits, and that make sense, pass.                 *)
LEMMA AdmittedPasses ==
  ASSUME NEW c \in Calls, c.id, c.params = "object", c.arguments.json = "object",
         Admits(c.tool, c.arguments.value),
         \A p \in {"path", "preview_id"} \cap DOMAIN c.arguments.value :
           ~IsBlank(c.arguments.value[p].value),
         "operations" \in DOMAIN c.arguments.value =>
           \A o \in ToSet(c.arguments.value.operations.value) : Sensible(o.value)
  PROVE  \E f \in decodeMCPArgs(c.tool, c.arguments.value) : Passes(c.tool, f)
<1>. DEFINE object == c.arguments.value  list == Field(object, "operations")
            all == [i \in DOMAIN list |-> Operation(list[i])]
            f == [p \in Declared(c.tool) |->
                    IF p # "operations" THEN Field(object, p)
                    ELSE [i \in DOMAIN Field(object, p) |-> Operation(Field(object, p)[i])]]
<1>1. Typed(c.tool, object) /\ Required(c.tool) \subseteq DOMAIN object /\ c.tool \in Tools
  BY DEF Admits
<1>2. /\ Decodes(c.tool, object)
      /\ \A p \in {"path", "preview_id"} \cap DOMAIN object : Field(object, p) = object[p].value
  BY <1>1, GivenIsKept, ToolsTakeNoIntegers DEF Pointers
<1>3. "operations" \in Declared(c.tool) =>
        /\ c.tool \in {"clipfit_preview", "clipfit_edit"} /\ "operations" \in DOMAIN object
        /\ \A o \in ToSet(list) : OperationDecodes(o)
        /\ Len(all) \in 1..MaxOperations /\ \A op \in ToSet(all) : ShapeOK(op)
  <2>. SUFFICES ASSUME "operations" \in Declared(c.tool)
                PROVE  /\ c.tool \in {"clipfit_preview", "clipfit_edit"} /\ "operations" \in DOMAIN object
                       /\ \A o \in ToSet(list) : OperationDecodes(o)
                       /\ Len(all) \in 1..MaxOperations /\ \A op \in ToSet(all) : ShapeOK(op)
    OBVIOUS
  <2>1. c.tool \in {"clipfit_preview", "clipfit_edit"}
    BY <1>1, ToolsWithOperations
  <2>2. "operations" \in DOMAIN object
    BY <1>1, <2>1, Declarations
  <2>3. \A o \in ToSet(object.operations.value) : Sensible(o.value)
    BY <2>2
  <2>. QED  BY <2>1, <2>2, <2>3, AdmittedListPasses
<1>. HIDE DEF object
<1>4. decodeMCPArgs(c.tool, object) = {f}
  <2>1. ~(\/ ~Decodes(c.tool, object)
          \/ "operations" \in Declared(c.tool)
             /\ \E o \in ToSet(Field(object, "operations")) : ~OperationDecodes(o))
    BY <1>2, <1>3
  <2>. QED  BY <2>1, Zenon DEF decodeMCPArgs
<1>5. /\ \A p \in Declared(c.tool) : p # "operations" => f[p] = Field(object, p)
      /\ "operations" \in Declared(c.tool) => f["operations"] = all
  OBVIOUS
<1>. HIDE DEF f, all, list
<1>6. \A p \in {"path", "preview_id"} \cap Required(c.tool) : ~IsBlank(f[p])
  <2>1. Required(c.tool) \subseteq Declared(c.tool)
    BY DEF Declared
  <2>2. \A p \in {"path", "preview_id"} : p # "operations"
    OBVIOUS
  <2>. QED  BY <1>1, <1>2, <1>5, <2>1, <2>2 DEF object
<1>7. Passes(c.tool, f)
  <2>1. CASE c.tool = "clipfit_apply"
    <3>1. ~IsBlank(f.preview_id)
      BY <1>6, <2>1, Declarations
    <3>. QED  BY <2>1, <3>1, Zenon DEF Passes
  <2>2. CASE c.tool \in {"clipfit_create", "clipfit_rollback"}
    <3>1. ~IsBlank(f.path) /\ c.tool # "clipfit_apply"
      BY <1>6, <2>2, Declarations
    <3>. QED  BY <2>2, <3>1, Zenon DEF Passes
  <2>3. CASE c.tool \in {"clipfit_preview", "clipfit_edit"}
    <3>1. "operations" \in Declared(c.tool) /\ "path" \in Required(c.tool)
      BY <2>3, Declarations
    <3>2. ~IsBlank(f.path) /\ f.operations = all
      BY <1>5, <1>6, <3>1
    <3>. QED  BY <1>3, <2>3, <3>1, <3>2, OperationsPass
  <2>. QED  BY <1>1, <2>1, <2>2, <2>3 DEF Tools
<1>. QED  BY <1>4, <1>7 DEF object

(* The other half: what the schema admits is tried.                        *)
LEMMA AdmittedCallIsTried ==
  ASSUME OneCall PROVE AdmittedIsTried
<1>. DEFINE object == call.arguments.value
<1>. SUFFICES
       ASSUME outcome # "none", call.id, call.params = "object", call.arguments.json = "object",
              Admits(call.tool, object),
              \A p \in {"path", "preview_id"} \cap DOMAIN object : ~IsBlank(object[p].value),
              "operations" \in DOMAIN object => \A o \in ToSet(object.operations.value) : Sensible(o.value)
       PROVE  /\ outcome = "tried"
              /\ \A f \in fields, p \in DOMAIN object \ {"operations", "create_parents"} :
                   f[p] = object[p].value
  BY DEF AdmittedIsTried
<1>1. call \in Calls /\ Handled /\ call.tool \in Tools /\ Typed(call.tool, object)
  BY DEF OneCall, Admits
<1>2. call.arguments # Null
  BY DEF Null
<1>3. fields = {g \in decodeMCPArgs(call.tool, object) : Passes(call.tool, g)}
  <2>1. LET given == IF call.arguments = Null THEN <<>> ELSE call.arguments.value
            known == call.tool \in Tools /\ call.arguments.json \in {"null", "object"}
        IN fields = IF ~call.id \/ call.params # "object" \/ ~known THEN {}
                    ELSE {g \in decodeMCPArgs(call.tool, given) : Passes(call.tool, g)}
    BY <1>1, Zenon DEF Handled
  <2>2. call.tool \in Tools /\ call.arguments.json \in {"null", "object"}
    BY <1>1
  <2>. QED  BY <1>2, <2>1, <2>2
<1>4. fields # {}
  BY <1>1, <1>3, AdmittedPasses
<1>5. outcome = "tried"
  BY <1>1, <1>4 DEF Handled
<1>6. ASSUME NEW f \in fields, NEW p \in DOMAIN object \ {"operations", "create_parents"}
      PROVE  f[p] = object[p].value
  <2>1. Decoded(call, f)
    BY <1>1, FieldsAreDecoded
  <2>2. ArgumentsOf(call) = object
    BY <1>2 DEF ArgumentsOf
  <2>3. p \in Declared(call.tool) /\ p \notin Pointers
    BY <1>1, <1>6, Declarations DEF Typed, Pointers, Tools
  <2>4. f[p] = Field(object, p)
    BY <1>6, <2>1, <2>2, <2>3 DEF Decoded
  <2>. QED  BY <1>1, <1>6, <2>3, <2>4, GivenIsKept, ToolsTakeNoIntegers
<1>. QED  BY <1>5, <1>6

(* A call reaches its handler only with what the schema of its tool declares, *)
(* up to the case of the names, and whatever the schema admits, makes sense *)
(* and writes its integers as such does (mcp_tools.go:3-138,               *)
(* mcp.go:251-348, 366-379).                                               *)
THEOREM SchemaKept == CallSpec => []SchemaIsKept
<1>1. OneCall => SchemaIsKept
  BY OnlyDeclaredIsTried, AdmittedCallIsTried DEF SchemaIsKept
<1>. QED  BY <1>1, CallIsHandled, PTL


Row == [tag : Tags \cup {""}, no : 1..MaxPatch]
Command == [type : StartTags, anchor : Seq(Row), find : Seq(Row), replace : Seq(Row)]

LinesTyped ==
  /\ patch \in Seq(Row) /\ Len(patch) <= MaxPatch
  /\ done \in BOOLEAN
  /\ anchorLines \in Seq(Row) /\ findLines \in Seq(Row) /\ replaceLines \in Seq(Row)
  /\ commands \in Seq(Command)

Runs ==
  /\ \A i \in DOMAIN patch : patch[i].no = i
  /\ IsRun(anchorLines, patch) /\ IsRun(findLines, patch) /\ IsRun(replaceLines, patch)

(* The part ends where the patch ends.                                     *)
AtTheEnd(part, whole) == part # <<>> => part[Len(part)].no = Len(whole)

Open ==
  /\ state = "IN_ANCHOR" => AtTheEnd(anchorLines, patch)
  /\ state = "IN_FIND" => AtTheEnd(findLines, patch)
  /\ state = "IN_REPLACE" => AtTheEnd(replaceLines, patch)
  /\ state \in {"IN_ANCHOR", "IN_FIND"} => replaceLines = <<>>

(* Every line of the part is below every line of the commands.             *)
Below(cs, part) ==
  \A k \in DOMAIN cs : \A row \in LinesOf(cs[k]), other \in ToSet(part) : row.no < other.no

Fresh ==
  state # "OUTSIDE" /\ ~done =>
    Below(commands, anchorLines) /\ Below(commands, findLines) /\ Below(commands, replaceLines)

Inv == KissTypeOK /\ LinesTyped /\ Runs /\ Open /\ Fresh /\ CommandsQuoteThePatch

-----------------------------------------------------------------------------
(* A run of a text is a run of the text with a line more.                  *)
LEMMA RunOfMore ==
  ASSUME NEW q \in Seq(Row), NEW row \in Row, NEW part \in Seq(Row), IsRun(part, q)
  PROVE  IsRun(part, Append(q, row))
<1>1. \A i \in DOMAIN q : i \in DOMAIN Append(q, row) /\ Append(q, row)[i] = q[i]
  OBVIOUS
<1>. QED  BY <1>1 DEF IsRun

(* A run that ends where the text ends goes on with the text.              *)
LEMMA RunGoesOn ==
  ASSUME NEW q \in Seq(Row), NEW row \in Row, row.no = Len(q) + 1,
         NEW part \in Seq(Row), IsRun(part, q), AtTheEnd(part, q)
  PROVE  IsRun(Append(part, row), Append(q, row)) /\ AtTheEnd(Append(part, row), Append(q, row))
<1>. DEFINE more == Append(part, row)  text == Append(q, row)
<1>1. more \in Seq(Row) /\ text \in Seq(Row) /\ Len(more) = Len(part) + 1 /\ Len(text) = Len(q) + 1
  OBVIOUS
<1>2. more[Len(more)] = row /\ text[Len(text)] = row
  OBVIOUS
<1>3. \A i \in DOMAIN part : more[i] = part[i]
  OBVIOUS
<1>4. IsRun(part, text)
  BY RunOfMore
<1>r. \A other \in Row : other.no \in Int
  <2>1. \A other \in Row : other.no \in 1..MaxPatch
    BY DEF Row
  <2>. QED  BY <2>1, LinesAssumption
<1>o. \A i \in DOMAIN part : part[i] \in Row
  OBVIOUS
<1>5. ASSUME NEW i \in DOMAIN more
      PROVE  more[i].no \in DOMAIN text /\ more[i] = text[more[i].no] /\ more[i].no = more[1].no + i - 1
  <2>1. CASE i \in DOMAIN part
    <3>1. 1 \in DOMAIN part
      BY <2>1
    <3>2. more[i] = part[i] /\ more[1] = part[1]
      BY <1>3, <2>1, <3>1
    <3>. QED  BY <1>4, <2>1, <3>2 DEF IsRun
  <2>2. CASE i \notin DOMAIN part
    <3>1. i = Len(part) + 1 /\ more[i] = row
      BY <1>1, <1>2, <1>5, <2>2
    <3>2. more[i].no \in DOMAIN text /\ more[i] = text[more[i].no]
      BY <1>1, <1>2, <3>1
    <3>3. CASE part = <<>>
      <4>1. i = 1
        BY <3>1, <3>3
      <4>. QED  BY <1>r, <3>1, <3>2, <4>1
    <3>4. CASE part # <<>>
      <4>1. Len(part) \in DOMAIN part /\ 1 \in DOMAIN part
        BY <3>4
      <4>2. part[Len(part)].no = part[1].no + Len(part) - 1 /\ part[Len(part)].no = Len(q)
        BY <3>4, <4>1 DEF IsRun, AtTheEnd
      <4>3. more[1] = part[1] /\ part[1].no \in Int
        BY <1>3, <1>o, <1>r, <4>1
      <4>4. more[i].no = Len(q) + 1 /\ i = Len(part) + 1
        BY <3>1
      <4>5. Len(q) \in Int /\ Len(part) \in Int
        OBVIOUS
      <4>6. Len(q) = part[1].no + Len(part) - 1
        BY <4>2
      <4>7. more[1].no + i - 1 = part[1].no + Len(part)
        BY <4>3, <4>4, <4>5
      <4>8. part[1].no + Len(part) = Len(q) + 1
        BY <4>3, <4>5, <4>6
      <4>9. more[i].no = Len(q) + 1
        BY <4>4
      <4>. QED  BY <3>2, <4>7, <4>8, <4>9
    <3>. QED  BY <3>3, <3>4
  <2>. QED  BY <2>1, <2>2
<1>6. IsRun(more, text)
  BY <1>5 DEF IsRun
<1>7. AtTheEnd(more, text)
  BY <1>1, <1>2 DEF AtTheEnd
<1>. QED  BY <1>6, <1>7

(* Nothing is a run of anything, and below everything.                     *)
LEMMA NothingIsARun ==
  ASSUME NEW q, NEW cs
  PROVE  IsRun(<<>>, q) /\ AtTheEnd(<<>>, q) /\ Below(cs, <<>>) /\ <<>> \in Seq(Row)
<1>1. IsRun(<<>>, q) /\ AtTheEnd(<<>>, q) /\ <<>> \in Seq(Row)
  BY DEF IsRun, AtTheEnd
<1>2. ToSet(<<>>) = {}
  BY DEF ToSet
<1>. QED  BY <1>1, <1>2 DEF Below

(* CommandsQuoteThePatch for given commands and a given text.              *)
Quoted(cs, q) ==
  \A k \in DOMAIN cs : IsRun(cs[k].anchor, q) /\ IsRun(cs[k].find, q) /\ IsRun(cs[k].replace, q)

Ordered(cs) ==
  \A k, l \in DOMAIN cs : k < l => \A row \in LinesOf(cs[k]), other \in LinesOf(cs[l]) : row.no < other.no

(* CommandsQuoteThePatch in two parts.                                     *)
LEMMA QuoteIsQuotedInOrder ==
  CommandsQuoteThePatch <=> Quoted(commands, patch) /\ Ordered(commands)
BY DEF CommandsQuoteThePatch, Quotes, Quoted, Ordered

(* What is quoted is quoted from the text with a line more.                *)
LEMMA QuotedOfMore ==
  ASSUME NEW q \in Seq(Row), NEW row \in Row, NEW cs \in Seq(Command), Quoted(cs, q)
  PROVE  Quoted(cs, Append(q, row))
<1>1. ASSUME NEW k \in DOMAIN cs
      PROVE  IsRun(cs[k].anchor, Append(q, row)) /\ IsRun(cs[k].find, Append(q, row))
             /\ IsRun(cs[k].replace, Append(q, row))
  <2>1. cs[k] \in Command
    BY <1>1
  <2>2. cs[k].anchor \in Seq(Row) /\ cs[k].find \in Seq(Row) /\ cs[k].replace \in Seq(Row)
    BY <2>1 DEF Command
  <2>. QED  BY <2>2, RunOfMore DEF Quoted
<1>. QED  BY <1>1 DEF Quoted

(* A line of a part of a command is a line of the text it is quoted from.  *)
LEMMA LinesOfTheText ==
  ASSUME NEW q \in Seq(Row), NEW cs \in Seq(Command), Quoted(cs, q),
         NEW k \in DOMAIN cs, NEW row \in LinesOf(cs[k])
  PROVE  row.no \in 1..Len(q)
<1>1. PICK part \in {cs[k].anchor, cs[k].find, cs[k].replace} : row \in ToSet(part)
  BY DEF LinesOf
<1>2. IsRun(part, q)
  BY <1>1 DEF Quoted
<1>3. PICK i \in DOMAIN part : row = part[i]
  BY <1>1 DEF ToSet
<1>4. part[i].no \in DOMAIN q
  BY <1>2, <1>3 DEF IsRun
<1>. QED  BY <1>3, <1>4

(* The new line is below all that was taken.                               *)
LEMMA NewLineIsBelow ==
  ASSUME NEW q \in Seq(Row), NEW cs \in Seq(Command), Quoted(cs, q),
         NEW part \in Seq(Row), Below(cs, part), NEW row \in Row, row.no = Len(q) + 1
  PROVE  Below(cs, Append(part, row))
<1>1. ToSet(Append(part, row)) = ToSet(part) \cup {row}
  <2>1. \A i \in DOMAIN Append(part, row) : Append(part, row)[i] = row \/ \E j \in DOMAIN part : Append(part, row)[i] = part[j]
    OBVIOUS
  <2>2. \A i \in DOMAIN part : i \in DOMAIN Append(part, row) /\ Append(part, row)[i] = part[i]
    OBVIOUS
  <2>3. Len(part) + 1 \in DOMAIN Append(part, row) /\ Append(part, row)[Len(part) + 1] = row
    OBVIOUS
  <2>. QED  BY <2>1, <2>2, <2>3, Zenon DEF ToSet
<1>2. ASSUME NEW k \in DOMAIN cs, NEW other \in LinesOf(cs[k])
      PROVE  other.no < row.no
  <2>1. other.no \in 1..Len(q)
    BY LinesOfTheText
  <2>. QED  BY <2>1
<1>. QED  BY <1>1, <1>2 DEF Below

(* flush: with or without the open command, the commands are typed, quoted *)
(* from the patch and in order.                                            *)
LEMMA FlushKeepsOrder ==
  ASSUME Inv, ~done, flush
  PROVE  /\ commands' \in Seq(Command)
         /\ \A k \in DOMAIN commands' : commands'[k].type \in StartTags
         /\ Quoted(commands', patch) /\ Ordered(commands')
<1>. DEFINE c == [type |-> cmdType, anchor |-> anchorLines, find |-> findLines, replace |-> replaceLines]
<1>1. commands \in Seq(Command) /\ Quoted(commands, patch) /\ Ordered(commands)
      /\ \A k \in DOMAIN commands : commands[k].type \in StartTags
  BY QuoteIsQuotedInOrder DEF Inv, LinesTyped, KissTypeOK
<1>2. CASE commands' = commands
  BY <1>1, <1>2
<1>3. CASE state = "IN_REPLACE" /\ cmdType # "" /\ commands' = Append(commands, c)
  <2>. DEFINE more == Append(commands, c)
  <2>1. c \in Command
    BY <1>3 DEF Inv, LinesTyped, KissTypeOK, Command
  <2>2. DOMAIN more = DOMAIN commands \cup {Len(commands) + 1} /\ more[Len(commands) + 1] = c
        /\ more \in Seq(Command) /\ \A k \in DOMAIN commands : more[k] = commands[k]
    BY <1>1, <2>1
  <2>3. c.anchor = anchorLines /\ c.find = findLines /\ c.replace = replaceLines /\ c.type = cmdType
    OBVIOUS
  <2>4. IsRun(c.anchor, patch) /\ IsRun(c.find, patch) /\ IsRun(c.replace, patch) /\ c.type \in StartTags
    BY <1>3, <2>3 DEF Inv, Runs, KissTypeOK
  <2>5. \A k \in DOMAIN commands : \A row \in LinesOf(commands[k]), other \in LinesOf(c) : row.no < other.no
    BY <1>3, <2>3 DEF Inv, Fresh, Below, LinesOf
  <2>. HIDE DEF c, more
  <2>6. Quoted(more, patch) /\ \A k \in DOMAIN more : more[k].type \in StartTags
    BY <1>1, <2>2, <2>4 DEF Quoted
  <2>7. ASSUME NEW k \in DOMAIN more, NEW l \in DOMAIN more, k < l,
               NEW row \in LinesOf(more[k]), NEW other \in LinesOf(more[l])
        PROVE  row.no < other.no
    <3>1. k \in DOMAIN commands /\ more[k] = commands[k]
      BY <1>1, <2>2, <2>7
    <3>2. CASE l \in DOMAIN commands
      BY <1>1, <2>2, <2>7, <3>1, <3>2 DEF Ordered
    <3>3. CASE l = Len(commands) + 1
      BY <2>2, <2>5, <2>7, <3>1, <3>3
    <3>. QED  BY <2>2, <3>2, <3>3
  <2>8. Ordered(more)
    BY <2>7 DEF Ordered
  <2>. QED  BY <1>3, <2>2, <2>6, <2>8 DEF more
<1>. QED  BY <1>2, <1>3 DEF flush

(* Sequences of lines, and the empty one.                                  *)
LEMMA OneLineMore ==
  ASSUME NEW q \in Seq(Row), NEW row \in Row
  PROVE  Append(q, row) \in Seq(Row)
OBVIOUS

(* The empty sequence.                                                     *)
LEMMA Nothing ==
  DOMAIN <<>> = {} /\ Len(<<>>) = 0 /\ <<>> \in Seq(Row) /\ <<>> \in Seq(Command)
OBVIOUS

(* There is a number for a line more.                                      *)
LEMMA NextNumber ==
  ASSUME NEW q \in Seq(Row), Len(q) < MaxPatch
  PROVE  Len(q) + 1 \in 1..MaxPatch
BY LinesAssumption

(* A line with the next number keeps a text numbered.                      *)
LEMMA OneMore ==
  ASSUME NEW q \in Seq(Row), \A i \in DOMAIN q : q[i].no = i, Len(q) < MaxPatch,
         NEW row \in Row, row.no = Len(q) + 1
  PROVE  /\ Append(q, row) \in Seq(Row) /\ Len(Append(q, row)) <= MaxPatch
         /\ \A i \in DOMAIN Append(q, row) : Append(q, row)[i].no = i
<1>. DEFINE more == Append(q, row)
<1>1. /\ more \in Seq(Row) /\ Len(more) = Len(q) + 1
      /\ DOMAIN more = DOMAIN q \cup {Len(q) + 1}
      /\ more[Len(q) + 1] = row /\ \A i \in DOMAIN q : more[i] = q[i]
  OBVIOUS
<1>2. Len(more) <= MaxPatch
  BY <1>1, LinesAssumption
<1>. HIDE DEF more
<1>3. \A i \in DOMAIN more : more[i].no = i
  BY <1>1
<1>. QED  BY <1>1, <1>2, <1>3 DEF more

(* What reading a line does to the patch.                                  *)
LEMMA ReadsALine ==
  ASSUME Inv, NEW tag \in Tags \cup {""}, Read(tag)
  PROVE  /\ Line(tag) \in Row /\ Line(tag).no = Len(patch) + 1
         /\ patch' = Append(patch, Line(tag)) /\ patch' \in Seq(Row) /\ Len(patch') <= MaxPatch
         /\ ~done /\ done' = FALSE
         /\ \A i \in DOMAIN patch' : patch'[i].no = i
<1>1. patch \in Seq(Row) /\ \A i \in DOMAIN patch : patch[i].no = i
  BY DEF Inv, LinesTyped, Runs
<1>l. Len(patch) < MaxPatch
  BY DEF Read
<1>2. patch' = Append(patch, Line(tag)) /\ ~done /\ done' = FALSE /\ Len(patch) < MaxPatch
  BY DEF Read, Inv, LinesTyped
<1>3. Line(tag) \in Row /\ Line(tag).no = Len(patch) + 1
  <2>2. Len(patch) + 1 \in 1..MaxPatch
    BY <1>1, <1>l, NextNumber
  <2>. QED  BY <2>2 DEF Line, Row
<1>. HIDE DEF Line
<1>4. /\ Append(patch, Line(tag)) \in Seq(Row) /\ Len(Append(patch, Line(tag))) <= MaxPatch
      /\ \A i \in DOMAIN Append(patch, Line(tag)) : Append(patch, Line(tag))[i].no = i
  BY <1>1, <1>2, <1>3, OneMore
<1>. QED  BY <1>2, <1>3, <1>4

(* An end tag: what was open is taken, and the parts stay as they are.     *)
LEMMA EndTagKeepsInv ==
  ASSUME Inv, EndTag
  PROVE  Inv'
<1>1. PICK tag \in EndTags : Read(tag)
  BY DEF EndTag
<1>2. tag \in Tags \cup {""}
  BY <1>1 DEF Tags
<1>. DEFINE row == Line(tag)
<1>3. /\ row \in Row /\ row.no = Len(patch) + 1
      /\ patch' = Append(patch, row) /\ patch' \in Seq(Row) /\ Len(patch') <= MaxPatch
      /\ ~done /\ done' = FALSE
      /\ \A i \in DOMAIN patch' : patch'[i].no = i
  BY <1>1, <1>2, ReadsALine
<1>. HIDE DEF row
<1>4. flush /\ state' = "OUTSIDE" /\ cmdType' = cmdType /\ anchorLines' = anchorLines
      /\ findLines' = findLines /\ replaceLines' = replaceLines
  BY DEF EndTag, parts
<1>5. /\ commands' \in Seq(Command) /\ \A k \in DOMAIN commands' : commands'[k].type \in StartTags
      /\ Quoted(commands', patch) /\ Ordered(commands')
  BY <1>3, <1>4, FlushKeepsOrder
<1>6. KissTypeOK'
  BY <1>3, <1>4, <1>5 DEF Inv, KissTypeOK, Row
<1>7. LinesTyped'
  BY <1>3, <1>4, <1>5 DEF Inv, LinesTyped
<1>8. Runs'
  BY <1>3, <1>4, RunOfMore DEF Inv, Runs, LinesTyped
<1>9. Open'
  BY <1>4 DEF Open
<1>10. Fresh'
  BY <1>4 DEF Fresh
<1>11. Quoted(commands', patch')
  BY <1>3, <1>5, QuotedOfMore DEF Inv, LinesTyped
<1>12. CommandsQuoteThePatch'
  BY <1>5, <1>11 DEF CommandsQuoteThePatch, Quotes, Quoted, Ordered
<1>. QED  BY <1>6, <1>7, <1>8, <1>9, <1>10, <1>12 DEF Inv

(* A start tag: what was open is taken, and the parts start anew.          *)
LEMMA StartTagKeepsInv ==
  ASSUME Inv, StartTag
  PROVE  Inv'
<1>1. PICK tag \in StartTags : Read(tag) /\ cmdType' = tag
  BY DEF StartTag
<1>2. tag \in Tags \cup {""}
  BY <1>1 DEF Tags
<1>. DEFINE row == Line(tag)
<1>3. /\ row \in Row /\ row.no = Len(patch) + 1
      /\ patch' = Append(patch, row) /\ patch' \in Seq(Row) /\ Len(patch') <= MaxPatch
      /\ ~done /\ done' = FALSE
      /\ \A i \in DOMAIN patch' : patch'[i].no = i
  BY <1>1, <1>2, ReadsALine
<1>. HIDE DEF row
<1>4. flush /\ state' = "IN_FIND" /\ cmdType' \in StartTags /\ anchorLines' = <<>>
      /\ findLines' = <<>> /\ replaceLines' = <<>>
  BY <1>1 DEF StartTag
<1>5. /\ commands' \in Seq(Command) /\ \A k \in DOMAIN commands' : commands'[k].type \in StartTags
      /\ Quoted(commands', patch) /\ Ordered(commands')
  BY <1>3, <1>4, FlushKeepsOrder
<1>6. KissTypeOK'
  <2>1. anchorLines' = <<>> /\ state' # "IN_ANCHOR" /\ cmdType' # ""
    BY <1>4 DEF StartTags
  <2>. QED  BY <1>3, <1>4, <1>5, <2>1 DEF KissTypeOK, Row
<1>7. LinesTyped'
  BY <1>3, <1>4, <1>5, NothingIsARun DEF LinesTyped
<1>8. Runs'
  BY <1>3, <1>4, NothingIsARun DEF Runs
<1>9. Open'
  BY <1>4, NothingIsARun DEF Open
<1>10. Fresh'
  BY <1>4, NothingIsARun DEF Fresh
<1>11. Quoted(commands', patch')
  BY <1>3, <1>5, QuotedOfMore DEF Inv, LinesTyped
<1>12. CommandsQuoteThePatch'
  BY <1>5, <1>11 DEF CommandsQuoteThePatch, Quotes, Quoted, Ordered
<1>. QED  BY <1>6, <1>7, <1>8, <1>9, <1>10, <1>12 DEF Inv


(* A line more takes nothing from the commands that were taken.            *)
LEMMA ReadingKeepsQuotes ==
  ASSUME Inv, NEW row \in Row, patch' = Append(patch, row), commands' = commands
  PROVE  CommandsQuoteThePatch'
<1>1. patch \in Seq(Row) /\ commands \in Seq(Command) /\ Quoted(commands, patch) /\ Ordered(commands)
  BY QuoteIsQuotedInOrder DEF Inv, LinesTyped
<1>2. Quoted(commands', patch')
  BY <1>1, QuotedOfMore
<1>. QED  BY <1>1, <1>2 DEF CommandsQuoteThePatch, Quotes, Quoted, Ordered


(* ANCHOR: the anchor starts anew.                                         *)
LEMMA AnchorTagKeepsInv ==
  ASSUME Inv, AnchorTag
  PROVE  Inv'
<1>. DEFINE row == Line("ANCHOR")
<1>1. /\ row \in Row /\ row.no = Len(patch) + 1
      /\ patch' = Append(patch, row) /\ patch' \in Seq(Row) /\ Len(patch') <= MaxPatch
      /\ ~done /\ done' = FALSE
      /\ \A i \in DOMAIN patch' : patch'[i].no = i
  <2>1. Read("ANCHOR") /\ "ANCHOR" \in Tags \cup {""}
    BY DEF AnchorTag, Tags
  <2>. QED  BY <2>1, ReadsALine
<1>. HIDE DEF row
<1>2. state \in {"IN_ANCHOR", "IN_FIND"} /\ cmdType = "REPLACE_BLOCK" /\ state' = "IN_ANCHOR" /\ anchorLines' = <<>>
      /\ cmdType' = cmdType /\ findLines' = findLines /\ replaceLines' = replaceLines /\ commands' = commands
  BY DEF AnchorTag, InBlockHead, parts
<1>3. KissTypeOK'
  BY <1>1, <1>2 DEF Inv, KissTypeOK, Row
<1>4. LinesTyped'
  BY <1>1, <1>2, NothingIsARun DEF Inv, LinesTyped
<1>5. Runs'
  BY <1>1, <1>2, RunOfMore, NothingIsARun DEF Inv, Runs, LinesTyped
<1>6. Open'
  BY <1>1, <1>2, NothingIsARun DEF Inv, Open
<1>7. Fresh'
  BY <1>1, <1>2, NothingIsARun DEF Inv, Fresh
<1>8. CommandsQuoteThePatch'
  BY <1>1, <1>2, ReadingKeepsQuotes
<1>. QED  BY <1>3, <1>4, <1>5, <1>6, <1>7, <1>8 DEF Inv


(* TARGET: the text to find starts anew.                                   *)
LEMMA TargetTagKeepsInv ==
  ASSUME Inv, TargetTag
  PROVE  Inv'
<1>. DEFINE row == Line("TARGET")
<1>1. /\ row \in Row /\ row.no = Len(patch) + 1
      /\ patch' = Append(patch, row) /\ patch' \in Seq(Row) /\ Len(patch') <= MaxPatch
      /\ ~done /\ done' = FALSE
      /\ \A i \in DOMAIN patch' : patch'[i].no = i
  <2>1. Read("TARGET") /\ "TARGET" \in Tags \cup {""}
    BY DEF TargetTag, Tags
  <2>. QED  BY <2>1, ReadsALine
<1>. HIDE DEF row
<1>2. state \in {"IN_ANCHOR", "IN_FIND"} /\ cmdType = "REPLACE_BLOCK" /\ state' = "IN_FIND" /\ findLines' = <<>>
      /\ cmdType' = cmdType /\ anchorLines' = anchorLines /\ replaceLines' = replaceLines /\ commands' = commands
  BY DEF TargetTag, InBlockHead, parts
<1>3. KissTypeOK'
  BY <1>1, <1>2 DEF Inv, KissTypeOK, Row
<1>4. LinesTyped'
  BY <1>1, <1>2, NothingIsARun DEF Inv, LinesTyped
<1>5. Runs'
  BY <1>1, <1>2, RunOfMore, NothingIsARun DEF Inv, Runs, LinesTyped
<1>6. Open'
  BY <1>1, <1>2, NothingIsARun DEF Inv, Open
<1>7. Fresh'
  BY <1>1, <1>2, NothingIsARun DEF Inv, Fresh
<1>8. CommandsQuoteThePatch'
  BY <1>1, <1>2, ReadingKeepsQuotes
<1>. QED  BY <1>3, <1>4, <1>5, <1>6, <1>7, <1>8 DEF Inv


(* WITH: nothing of a replacement was read before it.                      *)
LEMMA WithTagKeepsInv ==
  ASSUME Inv, WithTag
  PROVE  Inv'
<1>. DEFINE row == Line("WITH")
<1>1. /\ row \in Row /\ row.no = Len(patch) + 1
      /\ patch' = Append(patch, row) /\ patch' \in Seq(Row) /\ Len(patch') <= MaxPatch
      /\ ~done /\ done' = FALSE
      /\ \A i \in DOMAIN patch' : patch'[i].no = i
  <2>1. Read("WITH") /\ "WITH" \in Tags \cup {""}
    BY DEF WithTag, Tags
  <2>. QED  BY <2>1, ReadsALine
<1>. HIDE DEF row
<1>2. state \in {"IN_ANCHOR", "IN_FIND"} /\ state' = "IN_REPLACE" /\ anchorLines' = anchorLines
      /\ cmdType' = cmdType /\ findLines' = findLines /\ replaceLines' = replaceLines /\ commands' = commands
  BY DEF WithTag, InBlockHead, parts
<1>3. KissTypeOK'
  BY <1>1, <1>2 DEF Inv, KissTypeOK, Row
<1>4. LinesTyped'
  BY <1>1, <1>2, NothingIsARun DEF Inv, LinesTyped
<1>5. Runs'
  BY <1>1, <1>2, RunOfMore, NothingIsARun DEF Inv, Runs, LinesTyped
<1>6. Open'
  BY <1>1, <1>2, NothingIsARun DEF Inv, Open
<1>7. Fresh'
  BY <1>1, <1>2, NothingIsARun DEF Inv, Fresh
<1>8. CommandsQuoteThePatch'
  BY <1>1, <1>2, ReadingKeepsQuotes
<1>. QED  BY <1>3, <1>4, <1>5, <1>6, <1>7, <1>8 DEF Inv


(* Content: the line goes to the part that is being read.                  *)
LEMMA ContentKeepsInv ==
  ASSUME Inv, Content
  PROVE  Inv'
<1>. DEFINE keep(part, row, s) == IF state = s THEN Append(part, row) ELSE part
<1>1. PICK tag \in {"", "WITH", "ANCHOR", "TARGET"} :
        /\ Read(tag)
        /\ anchorLines' = keep(anchorLines, Line(tag), "IN_ANCHOR")
        /\ findLines' = keep(findLines, Line(tag), "IN_FIND")
        /\ replaceLines' = keep(replaceLines, Line(tag), "IN_REPLACE")
        /\ state' = state /\ cmdType' = cmdType /\ commands' = commands
  BY DEF Content
<1>. DEFINE row == Line(tag)
<1>2. /\ row \in Row /\ row.no = Len(patch) + 1
      /\ patch' = Append(patch, row) /\ patch' \in Seq(Row) /\ Len(patch') <= MaxPatch
      /\ ~done /\ done' = FALSE
      /\ \A i \in DOMAIN patch' : patch'[i].no = i
  <2>1. tag \in Tags \cup {""}
    BY DEF Tags
  <2>. QED  BY <1>1, <2>1, ReadsALine
<1>3. /\ anchorLines' = keep(anchorLines, row, "IN_ANCHOR")
      /\ findLines' = keep(findLines, row, "IN_FIND")
      /\ replaceLines' = keep(replaceLines, row, "IN_REPLACE")
      /\ state' = state /\ cmdType' = cmdType /\ commands' = commands
  BY <1>1
<1>. HIDE DEF row
<1>4. /\ anchorLines \in Seq(Row) /\ findLines \in Seq(Row) /\ replaceLines \in Seq(Row)
      /\ patch \in Seq(Row) /\ commands \in Seq(Command) /\ Quoted(commands, patch)
  BY QuoteIsQuotedInOrder DEF Inv, LinesTyped
<1>5. KissTypeOK'
  <2>1. cmdType # "REPLACE_BLOCK" => anchorLines' = <<>>
    BY <1>3 DEF Inv, KissTypeOK
  <2>. QED  BY <1>2, <1>3, <2>1 DEF Inv, KissTypeOK, Row
<1>6. anchorLines' \in Seq(Row) /\ findLines' \in Seq(Row) /\ replaceLines' \in Seq(Row)
  <2>1. /\ Append(anchorLines, row) \in Seq(Row) /\ Append(findLines, row) \in Seq(Row)
        /\ Append(replaceLines, row) \in Seq(Row)
    BY <1>2, <1>4, OneLineMore, Zenon
  <2>. QED  BY <1>3, <1>4, <2>1, Zenon
<1>7. LinesTyped'
  BY <1>2, <1>3, <1>6 DEF Inv, LinesTyped
<1>8. IsRun(anchorLines', patch') /\ (state' = "IN_ANCHOR" => AtTheEnd(anchorLines', patch'))
  <2>1. CASE state = "IN_ANCHOR"
    BY <1>2, <1>3, <1>4, <2>1, RunGoesOn DEF Inv, Runs, Open
  <2>2. CASE state # "IN_ANCHOR"
    BY <1>2, <1>3, <1>4, <2>2, RunOfMore DEF Inv, Runs
  <2>. QED  BY <2>1, <2>2
<1>9. IsRun(findLines', patch') /\ (state' = "IN_FIND" => AtTheEnd(findLines', patch'))
  <2>1. CASE state = "IN_FIND"
    BY <1>2, <1>3, <1>4, <2>1, RunGoesOn DEF Inv, Runs, Open
  <2>2. CASE state # "IN_FIND"
    BY <1>2, <1>3, <1>4, <2>2, RunOfMore DEF Inv, Runs
  <2>. QED  BY <2>1, <2>2
<1>10. IsRun(replaceLines', patch') /\ (state' = "IN_REPLACE" => AtTheEnd(replaceLines', patch'))
  <2>1. CASE state = "IN_REPLACE"
    BY <1>2, <1>3, <1>4, <2>1, RunGoesOn DEF Inv, Runs, Open
  <2>2. CASE state # "IN_REPLACE"
    BY <1>2, <1>3, <1>4, <2>2, RunOfMore DEF Inv, Runs
  <2>. QED  BY <2>1, <2>2
<1>11. Runs'
  BY <1>2, <1>8, <1>9, <1>10 DEF Runs
<1>12. Open'
  <2>1. state' \in {"IN_ANCHOR", "IN_FIND"} => replaceLines' = <<>>
    BY <1>3 DEF Inv, Open
  <2>. QED  BY <1>8, <1>9, <1>10, <2>1 DEF Open
<1>13. Fresh'
  <2>1. ASSUME state # "OUTSIDE", NEW part \in {anchorLines, findLines, replaceLines}
        PROVE  Below(commands, part) /\ Below(commands, Append(part, row))
    BY <1>2, <1>4, <2>1, NewLineIsBelow DEF Inv, Fresh
  <2>. QED  BY <1>3, <2>1 DEF Fresh
<1>14. CommandsQuoteThePatch'
  BY <1>2, <1>3, ReadingKeepsQuotes
<1>. QED  BY <1>5, <1>7, <1>11, <1>12, <1>13, <1>14 DEF Inv

(* The end of the patch: what was open is taken, and nothing is read.      *)
LEMMA EndOfPatchKeepsInv ==
  ASSUME Inv, EndOfPatch
  PROVE  Inv'
<1>1. /\ ~done /\ done' = TRUE /\ flush /\ patch' = patch /\ state' = state /\ cmdType' = cmdType
      /\ anchorLines' = anchorLines /\ findLines' = findLines /\ replaceLines' = replaceLines
  BY DEF EndOfPatch, parts
<1>2. /\ commands' \in Seq(Command) /\ \A k \in DOMAIN commands' : commands'[k].type \in StartTags
      /\ Quoted(commands', patch) /\ Ordered(commands')
  BY <1>1, FlushKeepsOrder
<1>3. KissTypeOK' /\ LinesTyped' /\ Runs'
  BY <1>1, <1>2 DEF Inv, KissTypeOK, LinesTyped, Runs
<1>4. Open' /\ Fresh'
  BY <1>1 DEF Inv, Open, Fresh
<1>5. CommandsQuoteThePatch'
  BY <1>1, <1>2 DEF CommandsQuoteThePatch, Quotes, Quoted, Ordered
<1>. QED  BY <1>3, <1>4, <1>5 DEF Inv

-----------------------------------------------------------------------------
(* Every reachable state of the parser satisfies the invariant.            *)
THEOREM ParserInvariant == KissSpec => []Inv
<1>1. KissInit => Inv
  <2>. SUFFICES ASSUME KissInit PROVE Inv
    OBVIOUS
  <2>1. patch = <<>> /\ commands = <<>> /\ done = FALSE /\ state = "OUTSIDE" /\ cmdType = ""
        /\ anchorLines = <<>> /\ findLines = <<>> /\ replaceLines = <<>>
    BY DEF KissInit
  <2>2. DOMAIN patch = {} /\ DOMAIN commands = {} /\ Len(patch) = 0
    BY <2>1, Nothing, Zenon
  <2>3. patch \in Seq(Row) /\ commands \in Seq(Command)
    BY <2>1, Nothing, Zenon
  <2>4. KissTypeOK
    BY <2>1, <2>2, <2>3 DEF KissTypeOK, Row
  <2>5. LinesTyped
    <3>1. 0 <= MaxPatch
      BY LinesAssumption
    <3>2. Len(patch) <= MaxPatch /\ done \in BOOLEAN
      BY <2>1, <2>2, <3>1, Zenon
    <3>. QED  BY <2>1, <2>3, <3>2, Nothing, Zenon DEF LinesTyped
  <2>6. Runs /\ Open /\ Fresh
    BY <2>1, <2>2, NothingIsARun DEF Runs, Open, Fresh
  <2>7. CommandsQuoteThePatch
    BY <2>2 DEF CommandsQuoteThePatch
  <2>. QED  BY <2>4, <2>5, <2>6, <2>7 DEF Inv
<1>2. Inv /\ [KissNext]_kissVars => Inv'
  <2>. SUFFICES ASSUME Inv, [KissNext]_kissVars PROVE Inv'
    OBVIOUS
  <2>1. CASE EndTag
    BY <2>1, EndTagKeepsInv
  <2>2. CASE StartTag
    BY <2>2, StartTagKeepsInv
  <2>3. CASE AnchorTag
    BY <2>3, AnchorTagKeepsInv
  <2>4. CASE TargetTag
    BY <2>4, TargetTagKeepsInv
  <2>5. CASE WithTag
    BY <2>5, WithTagKeepsInv
  <2>6. CASE Content
    BY <2>6, ContentKeepsInv
  <2>7. CASE EndOfPatch
    BY <2>7, EndOfPatchKeepsInv
  <2>8. CASE UNCHANGED kissVars
    <3>1. /\ patch' = patch /\ state' = state /\ cmdType' = cmdType /\ done' = done
          /\ anchorLines' = anchorLines /\ findLines' = findLines /\ replaceLines' = replaceLines
          /\ commands' = commands
      BY <2>8 DEF kissVars
    <3>. QED  BY <3>1 DEF Inv, KissTypeOK, LinesTyped, Runs, Open, Fresh, CommandsQuoteThePatch, Quotes
  <2>. QED  BY <2>1, <2>2, <2>3, <2>4, <2>5, <2>6, <2>7, <2>8 DEF KissNext
<1>. QED  BY <1>1, <1>2, PTL DEF KissSpec

(* The types, for patches of any length.                                   *)
THEOREM ParserTypes == KissSpec => []KissTypeOK
<1>1. Inv => KissTypeOK
  BY DEF Inv
<1>. QED  BY <1>1, ParserInvariant, PTL

(* Each part of a command is a run of consecutive lines of the patch, and  *)
(* no line is used by two commands (main.go:100-183).                      *)
THEOREM ParserQuotes == KissSpec => []CommandsQuoteThePatch
<1>1. Inv => CommandsQuoteThePatch
  BY DEF Inv
<1>. QED  BY <1>1, ParserInvariant, PTL


(* The least and the greatest of a set are what they are.                  *)
LEMMA MinIs ==
  ASSUME NEW S \in SUBSET Int, NEW m \in S, \A k \in S : m <= k
  PROVE  Min(S) = m
<1>1. Min(S) \in S /\ \A k \in S : Min(S) <= k
  BY DEF Min
<1>2. Min(S) <= m /\ m <= Min(S) /\ Min(S) \in Int /\ m \in Int
  BY <1>1
<1>. QED  BY <1>2

(* The greatest of a set of integers.                                      *)
LEMMA MaxIs ==
  ASSUME NEW S \in SUBSET Int, NEW m \in S, \A k \in S : k <= m
  PROVE  Max(S) = m
<1>1. \A k \in S : m >= k
  OBVIOUS
<1>2. Max(S) \in S /\ \A k \in S : Max(S) >= k
  BY <1>1 DEF Max
<1>3. Max(S) >= m /\ m >= Max(S) /\ Max(S) \in Int /\ m \in Int
  BY <1>1, <1>2
<1>. QED  BY <1>3

-----------------------------------------------------------------------------
(* WrittenUpTo goes through the text from its start.                       *)
LEMMA WrittenGrows ==
  ASSUME NEW q \in Seq(Row)
  PROVE  /\ WrittenUpTo(q)[0] = <<>>
         /\ \A n \in 1..Len(q) :
              WrittenUpTo(q)[n] = IF IsWhole(q, n) THEN Append(WrittenUpTo(q)[n-1], CommandAt(q, n))
                                  ELSE WrittenUpTo(q)[n-1]
<1>. DEFINE N == Len(q)
            C == {CommandAt(q, i) : i \in 1..N}
            V == Seq(C)
            next(v, n) == IF IsWhole(q, n) THEN Append(v, CommandAt(q, n)) ELSE v
            step == [p \in V \X (1..N) |-> next(p[1], p[2])]
            body(g, n) == IF n = 0 THEN <<>>
                          ELSE IF IsWhole(q, n) THEN Append(g[n-1], CommandAt(q, n)) ELSE g[n-1]
<1>1. N \in Nat
  OBVIOUS
<1>2. \A v \in V, n \in 1..N : next(v, n) \in V
  <2>1. \A n \in 1..N : CommandAt(q, n) \in C
    OBVIOUS
  <2>. HIDE DEF C
  <2>. QED  BY <2>1
<1>3. step \in [V \X (1..N) -> V]
  <2>. HIDE DEF V, next
  <2>. QED  BY <1>2
<1>4. <<>> \in V
  OBVIOUS
<1>5. PICK g \in [0..N -> V] : g[0] = <<>> /\ \A n \in 1..N : g[n] = step[<<g[n-1], n>>]
  <2>. DEFINE base == <<>>
  <2>1. base \in V
    BY <1>4
  <2>. HIDE DEF V, step, N, base
  <2>2. step \in Steps(V, N)
    BY <1>3 DEF Steps
  <2>3. Solutions(V, N, base, step) # {}
    BY ONLY <1>1, <2>1, <2>2, Recursion
  <2>. QED  BY <2>3 DEF base, Solutions
<1>6. \A n \in 1..N : g[n] = next(g[n-1], n)
  <2>. SUFFICES ASSUME NEW n \in 1..N PROVE g[n] = next(g[n-1], n)
    OBVIOUS
  <2>1. n - 1 \in 0..N
    BY <1>1
  <2>2. g[n-1] \in V
    BY <1>5, <2>1
  <2>3. step[<<g[n-1], n>>] = next(g[n-1], n)
    <3>. HIDE DEF V, next
    <3>. QED  BY <2>2
  <2>. QED  BY <1>5, <2>3
<1>7. g = [n \in 0..N |-> body(g, n)]
  <2>1. \A n \in 0..N : g[n] = body(g, n)
    <3>1. \A n \in 0..N : n = 0 \/ n \in 1..N
      BY <1>1
    <3>. HIDE DEF V, N
    <3>. QED  BY <1>5, <1>6, <3>1
  <2>. HIDE DEF V, body, N
  <2>. QED  BY <1>5, <2>1
<1>8. WrittenUpTo(q) = [n \in 0..N |-> body(WrittenUpTo(q), n)]
  <2>. DEFINE P(u) == u = [n \in 0..N |-> body(u, n)]
  <2>1. WrittenUpTo(q) = CHOOSE u : P(u)
    BY DEF WrittenUpTo
  <2>2. P(g)
    BY <1>7
  <2>. HIDE DEF P
  <2>3. P(WrittenUpTo(q))
    BY <2>1, <2>2, Zenon
  <2>. QED  BY <2>3, Zenon DEF P
<1>. DEFINE u == WrittenUpTo(q)
<1>9. \A n \in 0..N : u[n] = body(u, n)
  <2>. HIDE DEF body, N
  <2>. QED  BY <1>8
<1>10. u[0] = <<>>
  <2>1. 0 \in 0..N
    BY <1>1
  <2>. QED  BY <1>9, <2>1
<1>11. \A n \in 1..N : n # 0 /\ n \in 0..N
  BY <1>1
<1>12. \A n \in 1..N : u[n] = IF IsWhole(q, n) THEN Append(u[n-1], CommandAt(q, n)) ELSE u[n-1]
  <2>. HIDE DEF u, N
  <2>. QED  BY <1>9, <1>11
<1>. QED  BY <1>10, <1>12

(* Where no command is whole, nothing is written.                          *)
LEMMA NothingWhole ==
  ASSUME NEW q \in Seq(Row), NEW a \in 0..Len(q), NEW b \in a..Len(q),
         \A i \in a+1..b : ~IsWhole(q, i)
  PROVE  WrittenUpTo(q)[b] = WrittenUpTo(q)[a]
<1>. DEFINE S == {m \in a..b : WrittenUpTo(q)[m] = WrittenUpTo(q)[a]}
<1>1. a \in Nat /\ b \in Nat /\ a \in S /\ b \in a..b
  OBVIOUS
<1>2. ASSUME NEW k \in a..b-1, k \in S PROVE k + 1 \in S
  <2>1. k + 1 \in a..b /\ k + 1 \in a+1..b /\ k + 1 \in 1..Len(q) /\ (k + 1) - 1 = k
    OBVIOUS
  <2>2. WrittenUpTo(q)[k+1] = WrittenUpTo(q)[(k+1)-1]
    BY <2>1, WrittenGrows
  <2>. QED  BY <1>2, <2>1, <2>2
<1>3. \A k \in a..b : k \in S
  <2>. HIDE DEF S
  <2>. QED  BY ONLY <1>1, <1>2, Upwards
<1>. QED  BY <1>1, <1>3

(* Texts with the same commands up to a line have the same written there.  *)
LEMMA SameWritten ==
  ASSUME NEW q \in Seq(Row), NEW r \in Seq(Row), NEW m \in Nat, m <= Len(q), m <= Len(r),
         \A i \in 1..m : /\ IsWhole(r, i) <=> IsWhole(q, i)
                         /\ IsWhole(q, i) => CommandAt(r, i) = CommandAt(q, i)
  PROVE  WrittenUpTo(r)[m] = WrittenUpTo(q)[m]
<1>. DEFINE S == {k \in 0..m : WrittenUpTo(r)[k] = WrittenUpTo(q)[k]}
<1>1. 0 \in S /\ 0 \in Nat /\ m \in 0..m
  BY WrittenGrows
<1>2. ASSUME NEW k \in 0..m-1, k \in S PROVE k + 1 \in S
  <2>1. k + 1 \in 1..m /\ k + 1 \in 0..m /\ k + 1 \in 1..Len(q) /\ k + 1 \in 1..Len(r) /\ (k + 1) - 1 = k
    OBVIOUS
  <2>2. WrittenUpTo(r)[k] = WrittenUpTo(q)[k]
    BY <1>2
  <2>3. WrittenUpTo(q)[k+1] = IF IsWhole(q, k+1) THEN Append(WrittenUpTo(q)[k], CommandAt(q, k+1))
                              ELSE WrittenUpTo(q)[k]
    BY <2>1, WrittenGrows
  <2>4. WrittenUpTo(r)[k+1] = IF IsWhole(r, k+1) THEN Append(WrittenUpTo(r)[k], CommandAt(r, k+1))
                              ELSE WrittenUpTo(r)[k]
    BY <2>1, WrittenGrows
  <2>5. WrittenUpTo(r)[k+1] = WrittenUpTo(q)[k+1]
    BY <2>1, <2>2, <2>3, <2>4
  <2>. QED  BY <2>1, <2>5
<1>3. \A k \in 0..m : k \in S
  <2>. HIDE DEF S
  <2>. QED  BY ONLY <1>1, <1>2, Upwards
<1>. QED  BY <1>1, <1>3

-----------------------------------------------------------------------------
(* The end of a command: the first start or end tag after its start.       *)
Closing == StartTags \cup EndTags

(* Where a command ends: the first closing tag, or the end.                *)
LEMMA EndIs ==
  ASSUME NEW q \in Seq(Row), NEW i \in 1..Len(q), NEW e \in i+1..Len(q)+1,
         \A k \in i+1..e-1 : q[k].tag \notin Closing,
         e = Len(q) + 1 \/ q[e].tag \in Closing
  PROVE  EndOf(q, i) = e
<1>. DEFINE S == Tagged(q, Closing, i+1, Len(q)) \cup {Len(q) + 1}
<1>1. S \in SUBSET Int /\ e \in S
  BY DEF Tagged
<1>2. \A k \in S : e <= k
  <2>. SUFFICES ASSUME NEW k \in S, k < e PROVE FALSE
    BY <1>1
  <2>1. k \in i+1..e-1 /\ q[k].tag \in Closing
    BY DEF Tagged
  <2>. QED  BY <2>1
<1>3. EndOf(q, i) = Min(S)
  BY DEF EndOf, Closing
<1>. HIDE DEF S
<1>. QED  BY <1>1, <1>2, <1>3, MinIs

(* Every command ends there.                                               *)
LEMMA EndExists ==
  ASSUME NEW q \in Seq(Row), NEW i \in 1..Len(q)
  PROVE  /\ EndOf(q, i) \in i+1..Len(q)+1
         /\ \A k \in i+1..EndOf(q, i)-1 : q[k].tag \notin Closing
         /\ EndOf(q, i) = Len(q) + 1 \/ q[EndOf(q, i)].tag \in Closing
<1>. DEFINE S == Tagged(q, Closing, i+1, Len(q)) \cup {Len(q) + 1}
<1>1. S \in SUBSET Nat /\ S # {} /\ S \subseteq i+1..Len(q)+1
  BY DEF Tagged
<1>2. EndOf(q, i) = Min(S)
  BY DEF EndOf, Closing
<1>3. Min(S) \in S /\ \A k \in S : Min(S) <= k
  <2>. HIDE DEF S
  <2>. QED  BY <1>1, LeastIsMin
<1>4. EndOf(q, i) \in S /\ \A k \in S : EndOf(q, i) <= k
  BY <1>2, <1>3
<1>5. \A k \in i+1..EndOf(q, i)-1 : q[k].tag \notin Closing
  <2>. SUFFICES ASSUME NEW k \in i+1..EndOf(q, i)-1, q[k].tag \in Closing PROVE FALSE
    OBVIOUS
  <2>1. EndOf(q, i) \in i+1..Len(q)+1
    BY <1>1, <1>4
  <2>2. k \in S
    BY <2>1 DEF Tagged
  <2>3. EndOf(q, i) <= k
    BY <1>4, <2>2
  <2>. QED  BY <2>1, <2>3
<1>6. EndOf(q, i) = Len(q) + 1 \/ q[EndOf(q, i)].tag \in Closing
  BY <1>4 DEF Tagged
<1>. QED  BY <1>1, <1>4, <1>5, <1>6
-----------------------------------------------------------------------------
(* The parts of a command that end before the divide at w do not depend on *)
(* what follows it.                                                        *)
Same(q, r, m) == \A k \in 1..m : r[k] = q[k]

(* Patches that agree up to m have the same tags up to m,                  *)
LEMMA SameTags ==
  ASSUME NEW q \in Seq(Row), NEW r \in Seq(Row), NEW m \in Nat, m <= Len(q), m <= Len(r), Same(q, r, m),
         NEW tags, NEW a \in 1..Len(q) + 1, NEW b \in Int, b <= m
  PROVE  Tagged(r, tags, a, b) = Tagged(q, tags, a, b)
<1>1. \A k \in a..b : k \in 1..m
  OBVIOUS
<1>2. \A k \in a..b : r[k] = q[k]
  BY <1>1 DEF Same
<1>. QED  BY <1>2 DEF Tagged

(* and the same lines.                                                     *)
LEMMA RunsAlike ==
  ASSUME NEW q \in Seq(Row), NEW r \in Seq(Row), NEW m \in Nat, m <= Len(q), m <= Len(r), Same(q, r, m),
         NEW a \in 1..Len(q) + 1, NEW b \in Int, b <= m
  PROVE  SubSeq(r, a, b) = SubSeq(q, a, b) /\ SubSeq(q, a, b) \in Seq(Row)
<1>1. \A k \in a..b : k \in 1..Len(q) /\ k \in 1..Len(r) /\ k \in 1..m
  OBVIOUS
<1>2. SubSeq(q, a, b) \in Seq(Row) /\ SubSeq(r, a, b) \in Seq(Row)
  BY <1>1
<1>3. Len(SubSeq(q, a, b)) = Len(SubSeq(r, a, b))
  OBVIOUS
<1>4. \A j \in 1..Len(SubSeq(q, a, b)) : SubSeq(q, a, b)[j] = q[a + j - 1] /\ SubSeq(r, a, b)[j] = r[a + j - 1]
                                         /\ a + j - 1 \in 1..m
  OBVIOUS
<1>5. \A j \in 1..Len(SubSeq(q, a, b)) : SubSeq(r, a, b)[j] = SubSeq(q, a, b)[j]
  BY <1>4 DEF Same
<1>6. SubSeq(r, a, b) = SubSeq(q, a, b)
  BY ONLY <1>2, <1>3, <1>5, SeqEqual
<1>. QED  BY <1>2, <1>6

(* The heads of a command up to a line, and the end of the part at h.      *)
HeadTags == {"ANCHOR", "TARGET"}
After(q, i, w, h) == {g \in Heads(q, i, w, HeadTags) \cup {w} : g > h}

(* The heads of a block are inside of it.                                  *)
LEMMA HeadsAreInside ==
  ASSUME NEW q \in Seq(Row), NEW i \in 1..Len(q), NEW w \in i+1..Len(q)+1, NEW tags
  PROVE  /\ Heads(q, i, w, tags) \subseteq i+1..w-1
         /\ \A g \in Heads(q, i, w, tags) : q[i].tag = "REPLACE_BLOCK" /\ q[g].tag \in tags
BY DEF Heads, Tagged

(* A part ends at the next head, or where the replacement starts.          *)
LEMMA PartEnds ==
  ASSUME NEW q \in Seq(Row), NEW i \in 1..Len(q), NEW w \in i+1..Len(q)+1, NEW h \in i..w-1
  PROVE  /\ Min(After(q, i, w, h)) \in h+1..w
         /\ Min(After(q, i, w, h)) \in After(q, i, w, h)
         /\ \A g \in After(q, i, w, h) : Min(After(q, i, w, h)) <= g
         /\ PartAfter(q, i, w, h) = SubSeq(q, h+1, Min(After(q, i, w, h)) - 1)
         /\ PartAfter(q, i, w, h) \in Seq(Row)
<1>1. Heads(q, i, w, HeadTags) \subseteq i+1..w-1
  BY HeadsAreInside
<1>2. After(q, i, w, h) \subseteq h+1..w /\ w \in After(q, i, w, h)
  BY <1>1 DEF After
<1>3. After(q, i, w, h) \in SUBSET Nat /\ After(q, i, w, h) # {}
  BY <1>2
<1>4. Min(After(q, i, w, h)) \in After(q, i, w, h) /\ \A g \in After(q, i, w, h) : Min(After(q, i, w, h)) <= g
  BY <1>3, LeastIsMin
<1>5. PartAfter(q, i, w, h) = SubSeq(q, h+1, Min(After(q, i, w, h)) - 1)
  BY DEF PartAfter, After, HeadTags
<1>6. Min(After(q, i, w, h)) \in h+1..w
  BY <1>2, <1>4
<1>7. SubSeq(q, h+1, Min(After(q, i, w, h)) - 1) \in Seq(Row)
  BY <1>6
<1>. QED  BY <1>4, <1>5, <1>6, <1>7

(* The last anchor tag, if there is one, is inside,                        *)
LEMMA LastAnchorIsInside ==
  ASSUME NEW q \in Seq(Row), NEW i \in 1..Len(q), NEW w \in i+1..Len(q)+1,
         Heads(q, i, w, {"ANCHOR"}) # {}
  PROVE  /\ Max(Heads(q, i, w, {"ANCHOR"})) \in Heads(q, i, w, {"ANCHOR"})
         /\ Max(Heads(q, i, w, {"ANCHOR"})) \in i+1..w-1
         /\ \A g \in Heads(q, i, w, {"ANCHOR"}) : g <= Max(Heads(q, i, w, {"ANCHOR"}))
<1>. DEFINE S == Heads(q, i, w, {"ANCHOR"})
<1>1. S \subseteq i+1..w-1
  BY HeadsAreInside
<1>2. S \in SUBSET (0..w) /\ w \in Nat /\ S # {}
  BY <1>1
<1>3. Max(S) \in S /\ \A g \in S : g <= Max(S)
  <2>. HIDE DEF S
  <2>. QED  BY <1>2, GreatestNatural
<1>. QED  BY <1>1, <1>3

(* and so is the last target tag, or the command itself.                   *)
LEMMA LastTargetIsInside ==
  ASSUME NEW q \in Seq(Row), NEW i \in 1..Len(q), NEW w \in i+1..Len(q)+1
  PROVE  /\ Max({i} \cup Heads(q, i, w, {"TARGET"})) \in {i} \cup Heads(q, i, w, {"TARGET"})
         /\ Max({i} \cup Heads(q, i, w, {"TARGET"})) \in i..w-1
         /\ \A g \in {i} \cup Heads(q, i, w, {"TARGET"}) : g <= Max({i} \cup Heads(q, i, w, {"TARGET"}))
<1>. DEFINE S == {i} \cup Heads(q, i, w, {"TARGET"})
<1>1. Heads(q, i, w, {"TARGET"}) \subseteq i+1..w-1
  BY HeadsAreInside
<1>2. S \in SUBSET (0..w) /\ w \in Nat /\ S # {} /\ S \subseteq i..w-1
  BY <1>1
<1>3. Max(S) \in S /\ \A g \in S : g <= Max(S)
  <2>. HIDE DEF S
  <2>. QED  BY <1>2, GreatestNatural
<1>. QED  BY <1>2, <1>3

(* Patches that agree up to m have the same parts up to m.                 *)
LEMMA SameParts ==
  ASSUME NEW q \in Seq(Row), NEW r \in Seq(Row), NEW m \in Nat, m <= Len(q), m <= Len(r), Same(q, r, m),
         NEW i \in 1..m, NEW w \in i+1..m+1
  PROVE  /\ AnchorPart(r, i, w) = AnchorPart(q, i, w)
         /\ FindPart(r, i, w) = FindPart(q, i, w)
<1>1. \A tags : Heads(r, i, w, tags) = Heads(q, i, w, tags)
  <2>. TAKE tags
  <2>1. Tagged(r, tags, i+1, w-1) = Tagged(q, tags, i+1, w-1)
    <3>1. i+1 \in 1..Len(q)+1 /\ w-1 \in Int /\ w-1 <= m
      OBVIOUS
    <3>. QED  BY <3>1, SameTags
  <2>2. r[i] = q[i]
    BY DEF Same
  <2>. QED  BY <2>1, <2>2 DEF Heads
<1>2. i \in 1..Len(q) /\ i \in 1..Len(r) /\ w \in i+1..Len(q)+1 /\ w \in i+1..Len(r)+1
  OBVIOUS
<1>3. ASSUME NEW h \in i..w-1 PROVE PartAfter(r, i, w, h) = PartAfter(q, i, w, h)
  <2>1. After(r, i, w, h) = After(q, i, w, h)
    BY <1>1 DEF After
  <2>2. PartAfter(r, i, w, h) = SubSeq(r, h+1, Min(After(q, i, w, h)) - 1)
    BY <1>2, <2>1, PartEnds
  <2>3. PartAfter(q, i, w, h) = SubSeq(q, h+1, Min(After(q, i, w, h)) - 1) /\ Min(After(q, i, w, h)) \in h+1..w
    BY <1>2, PartEnds
  <2>. DEFINE e == Min(After(q, i, w, h)) - 1
  <2>4. h+1 \in 1..Len(q)+1 /\ e \in Int /\ e <= m
    BY <2>3
  <2>. HIDE DEF e
  <2>5. SubSeq(r, h+1, e) = SubSeq(q, h+1, e)
    BY <2>4, RunsAlike
  <2>. QED  BY <2>2, <2>3, <2>5 DEF e
<1>4. AnchorPart(r, i, w) = AnchorPart(q, i, w)
  <2>1. CASE Heads(q, i, w, {"ANCHOR"}) = {}
    BY <1>1, <2>1 DEF AnchorPart
  <2>2. CASE Heads(q, i, w, {"ANCHOR"}) # {}
    <3>1. Max(Heads(q, i, w, {"ANCHOR"})) \in i..w-1
      BY <1>2, <2>2, LastAnchorIsInside
    <3>2. AnchorPart(q, i, w) = PartAfter(q, i, w, Max(Heads(q, i, w, {"ANCHOR"})))
      BY <2>2, Zenon DEF AnchorPart
    <3>3. AnchorPart(r, i, w) = PartAfter(r, i, w, Max(Heads(q, i, w, {"ANCHOR"})))
      <4>1. Heads(r, i, w, {"ANCHOR"}) = Heads(q, i, w, {"ANCHOR"})
        BY <1>1, Zenon
      <4>. QED  BY <2>2, <4>1, Zenon DEF AnchorPart
    <3>. QED  BY <1>3, <3>1, <3>2, <3>3
  <2>. QED  BY <2>1, <2>2
<1>5. FindPart(r, i, w) = FindPart(q, i, w)
  <2>1. Max({i} \cup Heads(q, i, w, {"TARGET"})) \in i..w-1
    BY <1>2, LastTargetIsInside
  <2>2. Heads(r, i, w, {"TARGET"}) = Heads(q, i, w, {"TARGET"})
    BY <1>1, Zenon
  <2>3. FindPart(r, i, w) = PartAfter(r, i, w, Max({i} \cup Heads(q, i, w, {"TARGET"})))
    BY <2>2, Zenon DEF FindPart
  <2>4. FindPart(q, i, w) = PartAfter(q, i, w, Max({i} \cup Heads(q, i, w, {"TARGET"})))
    BY Zenon DEF FindPart
  <2>. QED  BY <1>3, <2>1, <2>3, <2>4
<1>. QED  BY <1>4, <1>5

(* A command that has ended is not changed by another line, and a start or *)
(* end tag ends the one that is open.                                      *)
LEMMA SettledStays ==
  ASSUME NEW q \in Seq(Row), NEW row \in Row, NEW i \in 1..Len(q),
         EndOf(q, i) <= Len(q) \/ row.tag \in Closing
  PROVE  /\ EndOf(Append(q, row), i) = EndOf(q, i)
         /\ IsWhole(Append(q, row), i) <=> IsWhole(q, i)
         /\ IsWhole(q, i) => CommandAt(Append(q, row), i) = CommandAt(q, i)
<1>. DEFINE r == Append(q, row)  m == Len(q)  e == EndOf(q, i)
<1>1. r \in Seq(Row) /\ Len(r) = m + 1 /\ m \in Nat /\ r[m+1] = row /\ Same(q, r, m)
  BY DEF Same
<1>2. /\ e \in i+1..m+1 /\ \A k \in i+1..e-1 : q[k].tag \notin Closing
      /\ e = m + 1 \/ q[e].tag \in Closing
  BY EndExists
<1>3. EndOf(q, i) = e /\ (e <= m \/ row.tag \in Closing) /\ i \in 1..m /\ Append(q, row) = r /\ Len(q) = m
  OBVIOUS
<1>. HIDE DEF r, m, e
<1>4. EndOf(r, i) = e
  <2>1. i \in 1..Len(r) /\ e \in i+1..Len(r)+1
    BY <1>1, <1>2, <1>3
  <2>2. \A k \in i+1..e-1 : r[k].tag \notin Closing
    <3>1. \A k \in i+1..e-1 : k \in 1..m
      BY <1>1, <1>2, <1>3
    <3>. QED  BY <1>1, <1>2, <3>1 DEF Same
  <2>3. r[e].tag \in Closing
    <3>1. CASE e = m + 1
      BY <1>1, <1>3, <3>1
    <3>2. CASE e # m + 1
      <4>1. e \in 1..m
        BY <1>1, <1>2, <1>3, <3>2
      <4>. QED  BY <1>1, <1>2, <3>2, <4>1 DEF Same
    <3>. QED  BY <3>1, <3>2
  <2>. QED  BY <1>1, <2>1, <2>2, <2>3, EndIs
<1>5. Withs(r, i) = Withs(q, i)
  <2>1. i+1 \in 1..Len(q)+1 /\ e-1 \in Int /\ e-1 <= m /\ m <= Len(q) /\ m <= Len(r)
    BY <1>1, <1>2, <1>3
  <2>2. Tagged(r, {"WITH"}, i+1, e-1) = Tagged(q, {"WITH"}, i+1, e-1)
    BY <1>1, <2>1, SameTags
  <2>. QED  BY <1>3, <1>4, <2>2 DEF Withs
<1>6. r[i] = q[i]
  BY <1>1, <1>3 DEF Same
<1>7. IsWhole(r, i) <=> IsWhole(q, i)
  BY <1>5, <1>6 DEF IsWhole
<1>8. ASSUME IsWhole(q, i) PROVE CommandAt(r, i) = CommandAt(q, i)
  <2>. DEFINE w == Min(Withs(q, i))
  <2>1. Withs(q, i) \in SUBSET Nat /\ Withs(q, i) # {} /\ Withs(q, i) \subseteq i+1..e-1
    <3>1. Withs(q, i) \subseteq i+1..e-1
      BY <1>3 DEF Withs, Tagged
    <3>2. Withs(q, i) # {}
      BY <1>8 DEF IsWhole
    <3>. QED  BY <1>1, <1>2, <1>3, <3>1, <3>2
  <2>2. w \in i+1..e-1
    <3>1. w \in Withs(q, i)
      BY <2>1, LeastIsMin
    <3>. QED  BY <2>1, <3>1
  <2>3. w \in i+1..m+1 /\ m <= Len(q) /\ m <= Len(r)
    BY <1>1, <1>2, <1>3, <2>2
  <2>. HIDE DEF w
  <2>4. AnchorPart(r, i, w) = AnchorPart(q, i, w) /\ FindPart(r, i, w) = FindPart(q, i, w)
    BY <1>1, <1>3, <2>3, SameParts
  <2>5. w+1 \in 1..Len(q)+1 /\ e-1 \in Int /\ e-1 <= m
    BY <1>1, <1>2, <1>3, <2>2
  <2>6. SubSeq(r, w+1, e-1) = SubSeq(q, w+1, e-1)
    BY <1>1, <2>3, <2>5, RunsAlike
  <2>7. Min(Withs(r, i)) = w /\ Min(Withs(q, i)) = w
    BY <1>5 DEF w
  <2>. QED  BY <1>3, <1>4, <1>6, <2>4, <2>6, <2>7 DEF CommandAt
<1>. QED  BY <1>3, <1>4, <1>7, <1>8
-----------------------------------------------------------------------------
(* While the head of a command is read, a line of content goes to the part *)
(* below the last head, and an ANCHOR or a TARGET begins its part anew.    *)
LastHead(q, s) == Max({s} \cup Heads(q, s, Len(q)+1, HeadTags))

(* The last head of an open command, or its start.                         *)
LEMMA LastHeadIsInside ==
  ASSUME NEW q \in Seq(Row), NEW s \in 1..Len(q)
  PROVE  /\ LastHead(q, s) \in s..Len(q)
         /\ LastHead(q, s) \in {s} \cup Heads(q, s, Len(q)+1, HeadTags)
         /\ \A g \in {s} \cup Heads(q, s, Len(q)+1, HeadTags) : g <= LastHead(q, s)
<1>. DEFINE w == Len(q) + 1  S == {s} \cup Heads(q, s, w, HeadTags)
<1>0. s \in 1..Len(q) /\ w \in s+1..Len(q)+1
  OBVIOUS
<1>1. Heads(q, s, w, HeadTags) \subseteq s+1..w-1
  BY <1>0, HeadsAreInside
<1>2. S \in SUBSET (0..w) /\ w \in Nat /\ S # {} /\ S \subseteq s..w-1
  BY <1>1
<1>3. Max(S) \in S /\ \A g \in S : g <= Max(S)
  <2>. HIDE DEF S
  <2>. QED  BY <1>2, GreatestNatural
<1>4. LastHead(q, s) = Max(S) /\ s..w-1 = s..Len(q)
  BY DEF LastHead
<1>5. Max(S) \in s..Len(q)
  <2>. HIDE DEF S
  <2>. QED  BY <1>2, <1>3, <1>4
<1>. QED  BY <1>3, <1>4, <1>5

IsHead(q, s, row) == q[s].tag = "REPLACE_BLOCK" /\ row.tag \in HeadTags

(* The heads with one line more.                                           *)
LEMMA HeadsOfMore ==
  ASSUME NEW q \in Seq(Row), NEW s \in 1..Len(q), NEW row \in Row, NEW tags \in SUBSET HeadTags
  PROVE  Heads(Append(q, row), s, Len(q)+2, tags)
           = Heads(q, s, Len(q)+1, tags)
               \cup (IF q[s].tag = "REPLACE_BLOCK" /\ row.tag \in tags THEN {Len(q)+1} ELSE {})
<1>. DEFINE r == Append(q, row)  n == Len(q)
<1>1. r[s] = q[s] /\ r[n+1] = row /\ \A k \in s+1..n : r[k] = q[k]
  OBVIOUS
<1>2. n \in Nat /\ s \in 1..n
  OBVIOUS
<1>3. s+1..(n+2)-1 = (s+1..(n+1)-1) \cup {n+1}
  BY <1>2
<1>4. Tagged(r, tags, s+1, (n+2)-1) = Tagged(q, tags, s+1, (n+1)-1) \cup (IF row.tag \in tags THEN {n+1} ELSE {})
  <2>1. \A k \in s+1..(n+1)-1 : r[k] = q[k]
    BY <1>1, <1>2
  <2>. HIDE DEF r, n
  <2>. QED  BY <1>1, <1>3, <2>1 DEF Tagged
<1>. HIDE DEF r
<1>5. CASE q[s].tag = "REPLACE_BLOCK"
  <2>1. Heads(r, s, n+2, tags) = Tagged(r, tags, s+1, (n+2)-1)
    BY <1>1, <1>5 DEF Heads
  <2>2. Heads(q, s, n+1, tags) = Tagged(q, tags, s+1, (n+1)-1)
    BY <1>5 DEF Heads
  <2>. QED  BY <1>4, <1>5, <2>1, <2>2 DEF r
<1>6. CASE q[s].tag # "REPLACE_BLOCK"
  <2>1. Heads(r, s, n+2, tags) = {} /\ Heads(q, s, n+1, tags) = {}
    BY <1>1, <1>6 DEF Heads
  <2>. QED  BY <1>6, <2>1 DEF r
<1>. QED  BY <1>5, <1>6

(* A run up to the end of a text goes on with the text.                    *)
LEMMA RunGrows ==
  ASSUME NEW q \in Seq(Row), NEW row \in Row, NEW h \in 0..Len(q)
  PROVE  SubSeq(Append(q, row), h+1, Len(q)+1) = Append(SubSeq(q, h+1, Len(q)), row)
<1>. DEFINE r == Append(q, row)  n == Len(q)
<1>1. n \in Nat /\ r \in Seq(Row) /\ Len(r) = n+1 /\ r[n+1] = row /\ Same(q, r, n)
  BY DEF Same
<1>3. h \in 0..n
  OBVIOUS
<1>. HIDE DEF r
<1>2. SubSeq(r, h+1, n+1) = Append(SubSeq(q, h+1, n), row)
    <2>. DEFINE u == SubSeq(q, h+1, n)  v == SubSeq(r, h+1, n+1)
    <2>1. /\ u \in Seq(Row) /\ Len(u) = n-h /\ \A j \in 1..n-h : u[j] = q[h+j]
      <3>1. \A k \in h+1..n : k \in 1..Len(q)
        BY <1>1, <1>3
      <3>2. u \in Seq(Row)
        BY <3>1
      <3>. QED  BY <1>1, <1>3, <3>2
    <2>2. /\ v \in Seq(Row) /\ Len(v) = n+1-h /\ \A j \in 1..n+1-h : v[j] = r[h+j]
      <3>. HIDE DEF n
      <3>1. \A k \in h+1..n+1 : k \in 1..Len(r)
        BY <1>1, <1>3
      <3>2. v \in Seq(Row)
        BY <1>1, <3>1
      <3>. QED  BY <1>1, <1>3, <3>2
    <2>. HIDE DEF u, v
    <2>3. /\ Append(u, row) \in Seq(Row) /\ Len(Append(u, row)) = n+1-h
          /\ \A j \in 1..n-h : Append(u, row)[j] = u[j]
          /\ Append(u, row)[n+1-h] = row
      <3>1. /\ Append(u, row) \in Seq(Row) /\ Len(Append(u, row)) = Len(u)+1
            /\ \A j \in 1..Len(u) : Append(u, row)[j] = u[j]
            /\ Append(u, row)[Len(u)+1] = row
        BY ONLY <2>1, row \in Row, AppendIs
      <3>2. Len(u)+1 = n+1-h
        BY <1>1, <1>3, <2>1
      <3>. QED  BY <2>1, <3>1, <3>2
    <2>4. \A j \in 1..n+1-h : Append(u, row)[j] = v[j]
      <3>. SUFFICES ASSUME NEW j \in 1..n+1-h PROVE Append(u, row)[j] = v[j]
        OBVIOUS
      <3>1. CASE j = n+1-h
        <4>1. h+j = n+1
          BY <1>1, <1>3, <3>1
        <4>. QED  BY <1>1, <2>2, <2>3, <3>1, <4>1
      <3>2. CASE j # n+1-h
        <4>1. j \in 1..n-h /\ h+j \in 1..n
          BY <1>1, <1>3, <3>2
        <4>. QED  BY <1>1, <2>1, <2>2, <2>3, <4>1 DEF Same
      <3>. QED  BY <3>1, <3>2
    <2>5. v = Append(u, row)
      BY <2>2, <2>3, <2>4, SeqEqual
    <2>. QED  BY <2>5 DEF u, v
<1>. QED  BY <1>2 DEF r

(* What is below the last head goes on, what is above another stays.       *)
LEMMA PartGoesOn ==
  ASSUME NEW q \in Seq(Row), NEW s \in 1..Len(q), NEW row \in Row, NEW h \in {s} \cup Heads(q, s, Len(q)+1, HeadTags)
  PROVE  /\ h \in s..Len(q)
         /\ h # LastHead(q, s) \/ IsHead(q, s, row)
              => PartAfter(Append(q, row), s, Len(q)+2, h) = PartAfter(q, s, Len(q)+1, h)
         /\ h = LastHead(q, s) /\ ~IsHead(q, s, row)
              => PartAfter(Append(q, row), s, Len(q)+2, h) = Append(PartAfter(q, s, Len(q)+1, h), row)
<1>. DEFINE r == Append(q, row)  n == Len(q)  A == After(q, s, n+1, h)  B == After(r, s, n+2, h)
            l == LastHead(q, s)  H == Heads(q, s, n+1, HeadTags)
<1>1. n \in Nat /\ s \in 1..n /\ r \in Seq(Row) /\ Len(r) = n+1 /\ r[n+1] = row /\ Same(q, r, n)
  BY DEF Same
<1>2. H \subseteq s+1..n
  <2>1. n+1 \in s+1..Len(q)+1 /\ (n+1)-1 = n
    BY <1>1
  <2>. QED  BY <2>1, HeadsAreInside
<1>3. h \in s..n
  BY <1>1, <1>2
<1>4. l \in s..n /\ l \in {s} \cup H /\ \A g \in {s} \cup H : g <= l
  BY LastHeadIsInside
<1>5. A = {g \in H \cup {n+1} : g > h}
  BY DEF After
<1>6. B = {g \in H \cup (IF IsHead(q, s, row) THEN {n+1} ELSE {}) \cup {n+2} : g > h}
  <2>1. Heads(r, s, n+2, HeadTags) = H \cup (IF IsHead(q, s, row) THEN {n+1} ELSE {})
    BY HeadsOfMore DEF IsHead
  <2>. HIDE DEF r, n, H
  <2>. QED  BY <2>1 DEF After
<1>7. /\ Min(A) \in h+1..n+1 /\ Min(A) \in A /\ \A g \in A : Min(A) <= g
      /\ PartAfter(q, s, n+1, h) = SubSeq(q, h+1, Min(A) - 1)
  <2>1. s \in 1..Len(q) /\ n+1 \in s+1..Len(q)+1 /\ h \in s..(n+1)-1
    BY <1>1, <1>3
  <2>. QED  BY <2>1, PartEnds
<1>8. PartAfter(r, s, n+2, h) = SubSeq(r, h+1, Min(B) - 1)
  <2>1. s \in 1..Len(r) /\ n+2 \in s+1..Len(r)+1 /\ h \in s..(n+2)-1
    BY <1>1, <1>3
  <2>. HIDE DEF r, n
  <2>. QED  BY <1>1, <2>1, PartEnds
<1>0. h \in {s} \cup H
  OBVIOUS
<1>. HIDE DEF r, A, B, l, H
<1>9. B \in SUBSET Int
  <2>1. H \in SUBSET Int /\ n+1 \in Int /\ n+2 \in Int
    BY <1>1, <1>2
  <2>2. \A g \in B : g \in H \/ g = n+1 \/ g = n+2
    BY <1>6
  <2>. QED  BY <2>1, <2>2
<1>10. ASSUME h # l \/ IsHead(q, s, row)
       PROVE  PartAfter(r, s, n+2, h) = PartAfter(q, s, n+1, h)
  <2>1. Min(A) \in B /\ \A g \in B : Min(A) <= g
    <3>1. CASE IsHead(q, s, row)
      <4>1. Min(A) \in B
        BY <1>5, <1>6, <1>7, <3>1
      <4>2. \A g \in B : g \in A \/ g = n+2
        BY <1>5, <1>6, <3>1
      <4>3. \A g \in B : Min(A) <= g
        BY <1>1, <1>3, <1>7, <4>2
      <4>. QED  BY <4>1, <4>3
    <3>2. CASE ~IsHead(q, s, row)
      <4>1. h # l /\ h < l /\ l \in H
        <5>1. h # l /\ h <= l
          BY <1>0, <1>4, <1>10, <3>2
        <5>2. h < l /\ l # s
          BY <1>1, <1>3, <1>4, <5>1
        <5>. QED  BY <1>4, <5>1, <5>2
      <4>2. l \in A /\ Min(A) <= l
        BY <1>5, <1>7, <4>1
      <4>3. Min(A) # n+1 /\ Min(A) \in H
        BY <1>1, <1>3, <1>4, <1>5, <1>7, <4>2
      <4>4. Min(A) \in B
        BY <1>5, <1>6, <1>7, <4>3
      <4>5. \A g \in B : g \in A \/ g = n+2
        BY <1>5, <1>6, <3>2
      <4>6. \A g \in B : Min(A) <= g
        BY <1>1, <1>3, <1>7, <4>5
      <4>. QED  BY <4>4, <4>6
    <3>. QED  BY <3>1, <3>2
  <2>2. Min(B) = Min(A)
    BY <1>9, <2>1, MinIs
  <2>3. h+1 \in 1..Len(q)+1 /\ Min(A)-1 \in Int /\ Min(A)-1 <= n /\ n <= Len(r)
    BY <1>1, <1>3, <1>7
  <2>4. SubSeq(r, h+1, Min(A)-1) = SubSeq(q, h+1, Min(A)-1)
    <3>. DEFINE e == Min(A)-1
    <3>1. h+1 \in 1..Len(q)+1 /\ e \in Int /\ e <= n /\ n <= Len(r) /\ n <= Len(q) /\ n \in Nat
      BY <1>1, <2>3
    <3>. HIDE DEF e, n
    <3>2. SubSeq(r, h+1, e) = SubSeq(q, h+1, e)
      BY <1>1, <3>1, RunsAlike
    <3>. QED  BY <3>2 DEF e
  <2>. QED  BY <1>7, <1>8, <2>2, <2>4
<1>11. ASSUME h = l, ~IsHead(q, s, row)
       PROVE  PartAfter(r, s, n+2, h) = Append(PartAfter(q, s, n+1, h), row)
  <2>1. \A g \in H : ~(g > h)
    BY <1>2, <1>3, <1>4, <1>11
  <2>2. A = {n+1}
    BY <1>1, <1>3, <1>5, <2>1
  <2>3. B = {n+2}
    BY <1>1, <1>3, <1>6, <1>11, <2>1
  <2>4. Min(A) = n+1 /\ Min(B) = n+2
    <3>1. \A k \in Int : {k} \in SUBSET Int /\ \A g \in {k} : k <= g
      OBVIOUS
    <3>2. \A k \in Int : Min({k}) = k
      BY <3>1, MinIs
    <3>3. Min({n+1}) = n+1 /\ Min({n+2}) = n+2
      BY <1>1, <3>2
    <3>. QED  BY <2>2, <2>3, <3>3
  <2>5. Min(A) - 1 = n /\ Min(B) - 1 = n+1
    BY <1>1, <2>4
  <2>6. SubSeq(r, h+1, n+1) = Append(SubSeq(q, h+1, n), row)
    <3>1. h \in 0..Len(q)
      BY <1>1, <1>3
    <3>2. SubSeq(Append(q, row), h+1, Len(q)+1) = Append(SubSeq(q, h+1, Len(q)), row)
      BY <3>1, RunGrows, Zenon
    <3>. QED  BY <3>2, Zenon DEF r
  <2>. QED  BY <1>7, <1>8, <2>5, <2>6
<1>. QED  BY <1>3, <1>10, <1>11 DEF r, l
(* The head of a command as the parser holds it.                           *)
HeadRead(q, s, a, f, st) ==
  /\ a = AnchorPart(q, s, Len(q)+1)
  /\ f = FindPart(q, s, Len(q)+1)
  /\ st = "IN_ANCHOR" <=> LastHead(q, s) \in Heads(q, s, Len(q)+1, {"ANCHOR"})

(* A head is an anchor or a target, and never the start.                   *)
LEMMA HeadKinds ==
  ASSUME NEW q \in Seq(Row), NEW s \in 1..Len(q), NEW w \in s+1..Len(q)+1
  PROVE  /\ Heads(q, s, w, HeadTags) = Heads(q, s, w, {"ANCHOR"}) \cup Heads(q, s, w, {"TARGET"})
         /\ Heads(q, s, w, {"ANCHOR"}) \cap Heads(q, s, w, {"TARGET"}) = {}
         /\ s \notin Heads(q, s, w, HeadTags)
BY DEF Heads, Tagged, HeadTags

(* A line of content in a head.                                            *)
LEMMA ContentInHead ==
  ASSUME NEW q \in Seq(Row), NEW s \in 1..Len(q), NEW row \in Row, ~IsHead(q, s, row),
         NEW a, NEW f, NEW st, HeadRead(q, s, a, f, st)
  PROVE  HeadRead(Append(q, row), s, IF st = "IN_ANCHOR" THEN Append(a, row) ELSE a,
                  IF st = "IN_ANCHOR" THEN f ELSE Append(f, row), st)
<1>. DEFINE r == Append(q, row)  n == Len(q)  l == LastHead(q, s)
            H == Heads(q, s, n+1, HeadTags)  A == Heads(q, s, n+1, {"ANCHOR"})  T == Heads(q, s, n+1, {"TARGET"})
<1>1. n \in Nat /\ Len(r) = n+1 /\ Len(r)+1 = n+2 /\ n+1 \in s+1..n+1 /\ s \in 1..n
  OBVIOUS
<1>2. H = A \cup T /\ A \cap T = {} /\ s \notin H
  BY <1>1, HeadKinds
<1>3. /\ Heads(r, s, n+2, {"ANCHOR"}) = A /\ Heads(r, s, n+2, {"TARGET"}) = T
      /\ Heads(r, s, n+2, HeadTags) = H
  <2>1. {"ANCHOR"} \in SUBSET HeadTags /\ {"TARGET"} \in SUBSET HeadTags /\ HeadTags \in SUBSET HeadTags
    BY DEF HeadTags
  <2>2. \A tags \in SUBSET HeadTags : ~(q[s].tag = "REPLACE_BLOCK" /\ row.tag \in tags)
    BY DEF IsHead
  <2>3. \A tags \in SUBSET HeadTags : Heads(r, s, n+2, tags) = Heads(q, s, n+1, tags)
    <3>. SUFFICES ASSUME NEW tags \in SUBSET HeadTags PROVE Heads(r, s, n+2, tags) = Heads(q, s, n+1, tags)
      OBVIOUS
    <3>1. Heads(r, s, n+2, tags) = Heads(q, s, n+1, tags)
            \cup (IF q[s].tag = "REPLACE_BLOCK" /\ row.tag \in tags THEN {n+1} ELSE {})
      BY HeadsOfMore
    <3>2. ~(q[s].tag = "REPLACE_BLOCK" /\ row.tag \in tags)
      BY <2>2
    <3>. HIDE DEF r, n
    <3>. QED  BY <3>1, <3>2
  <2>. QED  BY <2>1, <2>3
<1>4. l \in {s} \cup H /\ (\A g \in {s} \cup H : g <= l) /\ l \in s..n
  BY LastHeadIsInside
<1>5. LastHead(r, s) = l
  BY <1>1, <1>3 DEF LastHead
<1>6. \A h \in {s} \cup H :
        /\ h # l => PartAfter(r, s, n+2, h) = PartAfter(q, s, n+1, h)
        /\ h = l => PartAfter(r, s, n+2, h) = Append(PartAfter(q, s, n+1, h), row)
  BY PartGoesOn
<1>7. A \subseteq Int /\ T \subseteq Int /\ s \in Int
  <2>1. H \subseteq s+1..n
    <3>1. (n+1)-1 = n /\ s \in 1..Len(q) /\ n+1 \in s+1..Len(q)+1
      BY <1>1
    <3>. QED  BY <3>1, HeadsAreInside
  <2>. QED  BY <1>1, <1>2, <2>1
<1>8. /\ A # {} => Max(A) \in A /\ \A g \in A : g <= Max(A)
      /\ Max({s} \cup T) \in {s} \cup T /\ \A g \in {s} \cup T : g <= Max({s} \cup T)
  BY <1>1, LastAnchorIsInside, LastTargetIsInside
<1>9. a = AnchorPart(q, s, n+1) /\ f = FindPart(q, s, n+1) /\ (st = "IN_ANCHOR" <=> l \in A)
  BY DEF HeadRead
<1>10. /\ AnchorPart(q, s, n+1) = IF A = {} THEN <<>> ELSE PartAfter(q, s, n+1, Max(A))
       /\ AnchorPart(r, s, n+2) = IF A = {} THEN <<>> ELSE PartAfter(r, s, n+2, Max(A))
       /\ FindPart(q, s, n+1) = PartAfter(q, s, n+1, Max({s} \cup T))
       /\ FindPart(r, s, n+2) = PartAfter(r, s, n+2, Max({s} \cup T))
  BY <1>3, Zenon DEF AnchorPart, FindPart
<1>. HIDE DEF r, n, l, H, A, T
<1>11. CASE st = "IN_ANCHOR"
  <2>1. l \in A /\ A # {} /\ Max(A) = l
    <3>1. l \in A /\ \A g \in A : g <= l
      BY <1>2, <1>4, <1>9, <1>11
    <3>2. A \in SUBSET Int
      BY <1>7
    <3>3. Max(A) = l
      BY ONLY <3>1, <3>2, MaxIs
    <3>. QED  BY <3>1, <3>3
  <2>2. AnchorPart(r, s, n+2) = Append(a, row)
    BY <1>2, <1>6, <1>9, <1>10, <2>1
  <2>3. Max({s} \cup T) # l /\ Max({s} \cup T) \in {s} \cup H
    BY <1>2, <1>8, <2>1
  <2>4. FindPart(r, s, n+2) = f
    BY <1>6, <1>9, <1>10, <2>3
  <2>. QED  BY <1>1, <1>3, <1>5, <1>9, <1>11, <2>2, <2>4 DEF HeadRead, r
<1>12. CASE st # "IN_ANCHOR"
  <2>1. l \in {s} \cup T /\ l \notin A
    BY <1>2, <1>4, <1>9, <1>12
  <2>2. Max({s} \cup T) = l
    <3>1. {s} \cup T \in SUBSET Int /\ \A g \in {s} \cup T : g <= l
      BY <1>2, <1>4, <1>7
    <3>. QED  BY ONLY <2>1, <3>1, MaxIs
  <2>3. FindPart(r, s, n+2) = Append(f, row)
    BY <1>4, <1>6, <1>9, <1>10, <2>2
  <2>4. AnchorPart(r, s, n+2) = a
    <3>1. CASE A = {}
      BY <1>9, <1>10, <3>1
    <3>2. CASE A # {}
      <4>1. Max(A) \in H /\ Max(A) # l
        BY <1>2, <1>8, <2>1, <3>2
      <4>. QED  BY <1>6, <1>9, <1>10, <3>2, <4>1
    <3>. QED  BY <3>1, <3>2
  <2>. QED  BY <1>1, <1>3, <1>5, <1>9, <1>12, <2>3, <2>4 DEF HeadRead, r
<1>. QED  BY <1>11, <1>12

(* ANCHOR or TARGET in the head of a block.                                *)
LEMMA HeadInHead ==
  ASSUME NEW q \in Seq(Row), NEW s \in 1..Len(q), NEW row \in Row, IsHead(q, s, row),
         NEW a, NEW f, NEW st, HeadRead(q, s, a, f, st)
  PROVE  HeadRead(Append(q, row), s, IF row.tag = "ANCHOR" THEN <<>> ELSE a,
                  IF row.tag = "ANCHOR" THEN f ELSE <<>>,
                  IF row.tag = "ANCHOR" THEN "IN_ANCHOR" ELSE "IN_FIND")
<1>. DEFINE r == Append(q, row)  n == Len(q)
            H == Heads(q, s, n+1, HeadTags)  A == Heads(q, s, n+1, {"ANCHOR"})  T == Heads(q, s, n+1, {"TARGET"})
            A2 == Heads(r, s, n+2, {"ANCHOR"})  T2 == Heads(r, s, n+2, {"TARGET"})
<1>1. n \in Nat /\ Len(r) = n+1 /\ Len(r)+1 = n+2 /\ n+1 \in s+1..n+1 /\ s \in 1..n /\ r \in Seq(Row) /\ r[n+1] = row
  OBVIOUS
<1>2. H = A \cup T /\ A \cap T = {} /\ s \notin H
  BY <1>1, HeadKinds
<1>3. /\ A2 = A \cup (IF row.tag = "ANCHOR" THEN {n+1} ELSE {})
      /\ T2 = T \cup (IF row.tag = "TARGET" THEN {n+1} ELSE {})
      /\ Heads(r, s, n+2, HeadTags) = H \cup {n+1}
  <2>1. {"ANCHOR"} \in SUBSET HeadTags /\ {"TARGET"} \in SUBSET HeadTags /\ HeadTags \in SUBSET HeadTags
    BY DEF HeadTags
  <2>2. \A tags \in SUBSET HeadTags : Heads(r, s, n+2, tags) =
          Heads(q, s, n+1, tags) \cup (IF row.tag \in tags THEN {n+1} ELSE {})
    BY HeadsOfMore DEF IsHead
  <2>3. row.tag \in {"ANCHOR"} <=> row.tag = "ANCHOR"
    OBVIOUS
  <2>4. row.tag \in {"TARGET"} <=> row.tag = "TARGET"
    OBVIOUS
  <2>5. row.tag \in HeadTags
    BY DEF IsHead
  <2>6. A2 = A \cup (IF row.tag \in {"ANCHOR"} THEN {n+1} ELSE {})
    BY <2>1, <2>2, Zenon
  <2>7. T2 = T \cup (IF row.tag \in {"TARGET"} THEN {n+1} ELSE {})
    BY <2>1, <2>2, Zenon
  <2>8. Heads(r, s, n+2, HeadTags) = H \cup (IF row.tag \in HeadTags THEN {n+1} ELSE {})
    BY <2>1, <2>2, Zenon
  <2>. HIDE DEF r, n, H, A, T, A2, T2
  <2>. QED  BY <2>3, <2>4, <2>5, <2>6, <2>7, <2>8
<1>4. row.tag = "ANCHOR" \/ row.tag = "TARGET"
  BY DEF IsHead, HeadTags
<1>5. H \subseteq s+1..n
  <2>1. (n+1)-1 = n /\ s \in 1..Len(q) /\ n+1 \in s+1..Len(q)+1
    BY <1>1
  <2>. QED  BY <2>1, HeadsAreInside
<1>6. LastHead(r, s) = n+1
  <2>. DEFINE S == {s} \cup Heads(r, s, n+2, HeadTags)
  <2>1. n+1 \in S /\ S \in SUBSET Int /\ \A g \in S : g <= n+1
    <3>1. S = {s} \cup (H \cup {n+1})
      BY <1>3
    <3>. HIDE DEF r, n, H, S
    <3>2. n+1 \in S
      BY <3>1
    <3>3. \A g \in S : g \in s..n+1
      BY <1>1, <1>5, <3>1
    <3>. QED  BY <3>2, <3>3
  <2>2. LastHead(r, s) = Max(S)
    BY <1>1 DEF LastHead
  <2>. HIDE DEF S
  <2>. QED  BY <2>1, <2>2, MaxIs
<1>7. \A h \in {s} \cup H : PartAfter(r, s, n+2, h) = PartAfter(q, s, n+1, h)
  BY PartGoesOn
<1>8. PartAfter(r, s, n+2, n+1) = <<>>
  <2>1. s \in 1..Len(r) /\ n+2 \in s+1..Len(r)+1 /\ n+1 \in s..(n+2)-1
    BY <1>1
  <2>. HIDE DEF r, n
  <2>2. /\ Min(After(r, s, n+2, n+1)) \in (n+1)+1..n+2
        /\ PartAfter(r, s, n+2, n+1) = SubSeq(r, (n+1)+1, Min(After(r, s, n+2, n+1)) - 1)
    BY <1>1, <2>1, PartEnds
  <2>3. (n+1)+1 = n+2 /\ Min(After(r, s, n+2, n+1)) = n+2 /\ (n+2) - 1 = n+1
    BY <1>1, <2>2
  <2>4. SubSeq(r, n+2, n+1) = <<>>
    BY <1>1
  <2>. QED  BY <2>2, <2>3, <2>4
<1>9. /\ A # {} => Max(A) \in A /\ \A g \in A : g <= Max(A)
      /\ Max({s} \cup T) \in {s} \cup T /\ \A g \in {s} \cup T : g <= Max({s} \cup T)
  BY <1>1, LastAnchorIsInside, LastTargetIsInside
<1>10. /\ AnchorPart(q, s, n+1) = IF A = {} THEN <<>> ELSE PartAfter(q, s, n+1, Max(A))
       /\ AnchorPart(r, s, n+2) = IF A2 = {} THEN <<>> ELSE PartAfter(r, s, n+2, Max(A2))
       /\ FindPart(q, s, n+1) = PartAfter(q, s, n+1, Max({s} \cup T))
       /\ FindPart(r, s, n+2) = PartAfter(r, s, n+2, Max({s} \cup T2))
  BY Zenon DEF AnchorPart, FindPart
<1>11. a = AnchorPart(q, s, n+1) /\ f = FindPart(q, s, n+1)
  BY DEF HeadRead
<1>. HIDE DEF r, n, H, A, T, A2, T2
<1>12. CASE row.tag = "ANCHOR"
  <2>1. A2 = A \cup {n+1} /\ T2 = T
    BY <1>3, <1>12
  <2>2. Max(A2) = n+1 /\ n+1 \in A2
    <3>1. A2 \in SUBSET Int /\ n+1 \in A2 /\ \A g \in A2 : g <= n+1
      BY <1>1, <1>2, <1>5, <2>1
    <3>. QED  BY ONLY <3>1, MaxIs
  <2>3. AnchorPart(r, s, n+2) = <<>>
    BY <1>8, <1>10, <2>2
  <2>4. FindPart(r, s, n+2) = f
    BY <1>2, <1>7, <1>9, <1>10, <1>11, <2>1
  <2>. QED  BY <1>1, <1>6, <1>12, <2>2, <2>3, <2>4 DEF HeadRead, r, A2
<1>13. CASE row.tag # "ANCHOR"
  <2>1. T2 = T \cup {n+1} /\ A2 = A
    BY <1>3, <1>4, <1>13
  <2>2. Max({s} \cup T2) = n+1 /\ n+1 \notin A2
    <3>1. ({s} \cup T2) \in SUBSET Int /\ n+1 \in {s} \cup T2 /\ \A g \in {s} \cup T2 : g <= n+1
      BY <1>1, <1>2, <1>5, <2>1
    <3>2. n+1 \notin H
      BY <1>1, <1>5
    <3>3. Max({s} \cup T2) = n+1
      BY ONLY <3>1, MaxIs
    <3>. QED  BY <1>2, <2>1, <3>2, <3>3
  <2>3. FindPart(r, s, n+2) = <<>>
    BY <1>8, <1>10, <2>2
  <2>4. AnchorPart(r, s, n+2) = a
    <3>1. CASE A = {}
      BY <1>10, <1>11, <2>1, <3>1
    <3>2. CASE A # {}
      <4>1. Max(A) \in H
        BY <1>2, <1>9, <3>2
      <4>2. AnchorPart(r, s, n+2) = PartAfter(r, s, n+2, Max(A)) /\ a = PartAfter(q, s, n+1, Max(A))
        BY <1>10, <1>11, <2>1, <3>2
      <4>. QED  BY <1>7, <4>1, <4>2
    <3>. QED  BY <3>1, <3>2
  <2>. QED  BY <1>1, <1>6, <1>13, <2>2, <2>3, <2>4 DEF HeadRead, r, A2
<1>. QED  BY <1>12, <1>13

(* A start tag: nothing was read of the command's head.                    *)
LEMMA HeadStarts ==
  ASSUME NEW q \in Seq(Row), NEW row \in Row
  PROVE  HeadRead(Append(q, row), Len(q)+1, <<>>, <<>>, "IN_FIND")
<1>. DEFINE r == Append(q, row)  s == Len(q)+1
<1>1. r \in Seq(Row) /\ Len(r) = s /\ s \in 1..Len(r) /\ s+1 \in s+1..Len(r)+1 /\ s \in s..(s+1)-1 /\ s \in Int
  OBVIOUS
<1>. HIDE DEF r, s
<1>2. \A tags : Heads(r, s, s+1, tags) = {}
  <2>1. s+1..(s+1)-1 = {}
    BY <1>1
  <2>. QED  BY <2>1 DEF Heads, Tagged
<1>3. AnchorPart(r, s, s+1) = <<>>
  BY <1>2 DEF AnchorPart
<1>4. Max({s}) = s
  <2>1. {s} \in SUBSET Int /\ s \in {s} /\ \A g \in {s} : g <= s
    BY <1>1
  <2>. QED  BY <2>1, MaxIs
<1>5. FindPart(r, s, s+1) = PartAfter(r, s, s+1, s)
  <2>1. Max({s} \cup Heads(r, s, s+1, {"TARGET"})) = s
    BY <1>2, <1>4
  <2>. QED  BY <2>1, Zenon DEF FindPart
<1>6. PartAfter(r, s, s+1, s) = <<>>
  <2>1. Min(After(r, s, s+1, s)) \in s+1..s+1 /\ PartAfter(r, s, s+1, s) = SubSeq(r, s+1, Min(After(r, s, s+1, s)) - 1)
    BY <1>1, PartEnds
  <2>2. Min(After(r, s, s+1, s)) = s+1 /\ (s+1)-1 = s
    BY <1>1, <2>1
  <2>3. SubSeq(r, s+1, s) = <<>>
    BY <1>1
  <2>. QED  BY <2>1, <2>2, <2>3
<1>. QED  BY <1>1, <1>2, <1>3, <1>5, <1>6 DEF HeadRead, r, s
-----------------------------------------------------------------------------
(* Commands that have ended are written as they were.                      *)
LEMMA WrittenStays ==
  ASSUME NEW q \in Seq(Row), NEW row \in Row, NEW m \in 0..Len(q),
         \A i \in 1..m : q[i].tag \in StartTags => EndOf(q, i) <= Len(q) \/ row.tag \in Closing
  PROVE  WrittenUpTo(Append(q, row))[m] = WrittenUpTo(q)[m]
<1>. DEFINE r == Append(q, row)
<1>1. r \in Seq(Row) /\ m \in Nat /\ m <= Len(q) /\ m <= Len(r) /\ \A i \in 1..m : i \in 1..Len(q) /\ r[i] = q[i]
  OBVIOUS
<1>2. \A i \in 1..m : /\ IsWhole(r, i) <=> IsWhole(q, i)
                      /\ IsWhole(q, i) => CommandAt(r, i) = CommandAt(q, i)
  <2>. SUFFICES ASSUME NEW i \in 1..m
                PROVE  /\ IsWhole(r, i) <=> IsWhole(q, i)
                       /\ IsWhole(q, i) => CommandAt(r, i) = CommandAt(q, i)
    OBVIOUS
  <2>1. CASE q[i].tag \in StartTags
    BY <1>1, <2>1, SettledStays
  <2>2. CASE q[i].tag \notin StartTags
    <3>1. ~IsWhole(r, i) /\ ~IsWhole(q, i)
      BY <1>1, <2>2 DEF IsWhole
    <3>. QED  BY <3>1
  <2>. QED  BY <2>1, <2>2
<1>. HIDE DEF r
<1>3. WrittenUpTo(r)[m] = WrittenUpTo(q)[m]
  BY <1>1, <1>2, SameWritten
<1>. QED  BY <1>3 DEF r

(* What was started before a start or an end tag ends there at the latest. *)
LEMMA EndsBefore ==
  ASSUME NEW q \in Seq(Row), NEW s \in 1..Len(q), q[s].tag \in Closing, NEW i \in 1..s-1
  PROVE  EndOf(q, i) <= Len(q)
<1>1. i \in 1..Len(q) /\ s \in i+1..Len(q)
  OBVIOUS
<1>2. EndOf(q, i) \in i+1..Len(q)+1 /\ \A k \in i+1..EndOf(q, i)-1 : q[k].tag \notin Closing
  BY <1>1, EndExists
<1>3. s \notin i+1..EndOf(q, i)-1
  BY <1>2
<1>. QED  BY <1>1, <1>2, <1>3

(* A command is open since s, its WITH is at w.                            *)
OpenSince(q, s) == q[s].tag \in StartTags /\ \A k \in s+1..Len(q) : q[k].tag \notin Closing
Divided(q, s, w) == q[w].tag = "WITH" /\ \A k \in s+1..w-1 : q[k].tag # "WITH"

(* An open command has no end yet, and nothing after it is whole.          *)
LEMMA OpenEnds ==
  ASSUME NEW q \in Seq(Row), NEW s \in 1..Len(q), OpenSince(q, s)
  PROVE  /\ EndOf(q, s) = Len(q) + 1
         /\ Withs(q, s) = {k \in s+1..Len(q) : q[k].tag = "WITH"}
         /\ \A i \in s+1..Len(q) : ~IsWhole(q, i)
<1>1. Len(q) \in Nat /\ Len(q)+1 \in s+1..Len(q)+1 /\ (Len(q)+1)-1 = Len(q)
  OBVIOUS
<1>2. EndOf(q, s) = Len(q)+1
  BY <1>1, EndIs DEF OpenSince
<1>3. Withs(q, s) = {k \in s+1..Len(q) : q[k].tag = "WITH"}
  BY <1>1, <1>2 DEF Withs, Tagged
<1>4. \A i \in s+1..Len(q) : ~IsWhole(q, i)
  BY DEF IsWhole, OpenSince, Closing
<1>. QED  BY <1>2, <1>3, <1>4

(* What the parser holds while a command is open.                          *)
Holds(q, s, w, a, f, p) ==
  a = AnchorPart(q, s, w) /\ f = FindPart(q, s, w) /\ p = SubSeq(q, w+1, Len(q))

Reads(q, s, c, t, a, f, p, st) ==
  /\ OpenSince(q, s) /\ q[s].tag = t /\ c = WrittenUpTo(q)[s-1]
  /\ st \in {"IN_FIND", "IN_ANCHOR"} =>
       HeadRead(q, s, a, f, st) /\ \A k \in s+1..Len(q) : q[k].tag # "WITH"
  /\ st = "IN_REPLACE" => \E w \in s+1..Len(q) : Divided(q, s, w) /\ Holds(q, s, w, a, f, p)

AllEnded(q) == \A i \in 1..Len(q) : q[i].tag \in StartTags => EndOf(q, i) <= Len(q)

KeepsUp ==
  ~done => /\ state = "OUTSIDE" => AllEnded(patch) /\ commands = Written(patch)
           /\ state # "OUTSIDE" =>
                \E s \in 1..Len(patch) :
                  Reads(patch, s, commands, cmdType, anchorLines, findLines, replaceLines, state)

(* A command that is taken is the one that was written.                    *)
LEMMA FlushWrites ==
  ASSUME Inv, KeepsUp, ~done, flush
  PROVE  commands' = Written(patch)
<1>. DEFINE q == patch  n == Len(patch)
<1>1. q \in Seq(Row) /\ n \in Nat /\ commands \in Seq(Command)
  BY DEF Inv, LinesTyped
<1>2. state \in {"OUTSIDE", "IN_FIND", "IN_ANCHOR", "IN_REPLACE"} /\ (cmdType = "" => state = "OUTSIDE")
  BY DEF Inv, KissTypeOK
<1>3. CASE state = "OUTSIDE"
  <2>1. commands' = commands /\ commands = Written(patch)
    BY <1>3 DEF flush, KeepsUp
  <2>. QED  BY <2>1
<1>4. CASE state # "OUTSIDE"
  <2>1. PICK s \in 1..n : Reads(q, s, commands, cmdType, anchorLines, findLines, replaceLines, state)
    BY <1>4 DEF KeepsUp
  <2>2. OpenSince(q, s) /\ q[s].tag = cmdType /\ commands = WrittenUpTo(q)[s-1] /\ cmdType \in StartTags
    BY <2>1 DEF Reads, OpenSince
  <2>3. /\ EndOf(q, s) = n + 1 /\ \A i \in s+1..n : ~IsWhole(q, i)
        /\ Withs(q, s) = {k \in s+1..n : q[k].tag = "WITH"}
    BY <1>1, <2>2, OpenEnds
  <2>4. Written(q) = WrittenUpTo(q)[s]
    <3>1. s \in 0..Len(q) /\ n \in s..Len(q)
      BY <1>1
    <3>2. WrittenUpTo(q)[n] = WrittenUpTo(q)[s]
      BY <1>1, <2>3, <3>1, NothingWhole
    <3>. QED  BY <3>2 DEF Written
  <2>5. WrittenUpTo(q)[s] = IF IsWhole(q, s) THEN Append(commands, CommandAt(q, s)) ELSE commands
    BY <1>1, <2>2, WrittenGrows
  <2>6. CASE state \in {"IN_FIND", "IN_ANCHOR"}
    <3>1. \A k \in s+1..n : q[k].tag # "WITH"
      BY <2>1, <2>6 DEF Reads
    <3>2. ~IsWhole(q, s)
      BY <2>3, <3>1 DEF IsWhole
    <3>3. commands' = commands
      BY <2>6 DEF flush
    <3>. QED  BY <2>4, <2>5, <3>2, <3>3
  <2>7. CASE state = "IN_REPLACE"
    <3>1. PICK w \in s+1..n : Divided(q, s, w) /\ Holds(q, s, w, anchorLines, findLines, replaceLines)
      BY <2>1, <2>7 DEF Reads
    <3>2. Withs(q, s) \in SUBSET Int /\ w \in Withs(q, s) /\ \A k \in Withs(q, s) : w <= k
      <4>1. Withs(q, s) \subseteq s+1..n /\ w \in Withs(q, s)
        BY <2>3, <3>1 DEF Divided
      <4>2. \A k \in Withs(q, s) : w <= k
        <5>. SUFFICES ASSUME NEW k \in Withs(q, s), k < w PROVE FALSE
          BY <1>1, <4>1
        <5>1. k \in s+1..w-1 /\ q[k].tag = "WITH"
          BY <1>1, <2>3
        <5>. QED  BY <3>1, <5>1 DEF Divided
      <4>. QED  BY <1>1, <4>1, <4>2
    <3>3. Min(Withs(q, s)) = w
      BY <3>2, MinIs
    <3>4. IsWhole(q, s)
      BY <2>2, <3>2 DEF IsWhole
    <3>5. CommandAt(q, s) = [type |-> cmdType, anchor |-> anchorLines, find |-> findLines, replace |-> replaceLines]
      <4>1. (n+1)-1 = n
        BY <1>1
      <4>. QED  BY <2>2, <2>3, <3>1, <3>3, <4>1 DEF CommandAt, Holds
    <3>6. commands' = Append(commands, [type |-> cmdType, anchor |-> anchorLines, find |-> findLines, replace |-> replaceLines])
      BY <1>2, <2>7 DEF flush
    <3>. QED  BY <2>4, <2>5, <3>4, <3>5, <3>6
  <2>. QED  BY <1>2, <1>4, <2>6, <2>7
<1>. QED  BY <1>3, <1>4

(* The steps that take what was open: an end tag, a start tag.             *)
LEMMA EndTagKeepsUp ==
  ASSUME Inv, KeepsUp, EndTag
  PROVE  KeepsUp'
<1>. DEFINE q == patch  n == Len(patch)
<1>1. PICK tag \in EndTags : Read(tag)
  BY DEF EndTag
<1>2. tag \in Tags \cup {""}
  BY <1>1 DEF Tags
<1>. DEFINE row == Line(tag)  r == Append(q, row)
<1>3. row \in Row /\ patch' = r /\ ~done /\ q \in Seq(Row) /\ row.tag = tag
  BY <1>1, <1>2, ReadsALine DEF Inv, LinesTyped, Line
<1>. HIDE DEF row
<1>4. flush /\ state' = "OUTSIDE"
  BY DEF EndTag
<1>5. row.tag \in Closing /\ row.tag \notin StartTags
  BY <1>1, <1>3 DEF Closing, StartTags, EndTags
<1>6. commands' = Written(q)
  BY <1>3, <1>4, FlushWrites
<1>7. n \in Nat /\ r \in Seq(Row) /\ Len(r) = n+1 /\ r[n+1] = row /\ n+1 \in 1..Len(r) /\ n \in 0..Len(q) /\ (n+1)-1 = n
  BY <1>3
<1>8. WrittenUpTo(r)[n] = WrittenUpTo(q)[n]
  BY <1>3, <1>5, <1>7, WrittenStays
<1>9. WrittenUpTo(r)[n+1] = WrittenUpTo(r)[n]
  <2>1. ~IsWhole(r, n+1)
    BY <1>5, <1>7 DEF IsWhole
  <2>. HIDE DEF r
  <2>2. WrittenUpTo(r)[n+1] = WrittenUpTo(r)[(n+1)-1]
    BY <1>7, <2>1, WrittenGrows
  <2>. QED  BY <1>7, <2>2
<1>10. commands' = Written(patch')
  BY <1>3, <1>6, <1>7, <1>8, <1>9 DEF Written
<1>11. AllEnded(r)
  <2>. SUFFICES ASSUME NEW i \in 1..n+1, r[i].tag \in StartTags PROVE EndOf(r, i) <= n+1
    BY <1>7 DEF AllEnded
  <2>1. i \in 1..(n+1)-1
    BY <1>5, <1>7
  <2>. HIDE DEF r
  <2>. QED  BY <1>5, <1>7, <2>1, EndsBefore
<1>. QED  BY <1>3, <1>4, <1>10, <1>11 DEF KeepsUp

(* A start tag: the command before it ends, and one is open.               *)
LEMMA StartTagKeepsUp ==
  ASSUME Inv, KeepsUp, StartTag
  PROVE  KeepsUp'
<1>. DEFINE q == patch  n == Len(patch)
<1>1. PICK tag \in StartTags : Read(tag) /\ cmdType' = tag
  BY DEF StartTag
<1>2. tag \in Tags \cup {""}
  BY <1>1 DEF Tags
<1>. DEFINE row == Line(tag)  r == Append(q, row)
<1>3. row \in Row /\ patch' = r /\ ~done /\ q \in Seq(Row) /\ row.tag = tag
  BY <1>1, <1>2, ReadsALine DEF Inv, LinesTyped, Line
<1>. HIDE DEF row
<1>4. /\ flush /\ state' = "IN_FIND" /\ cmdType' = row.tag
      /\ anchorLines' = <<>> /\ findLines' = <<>>
  BY <1>1, <1>3 DEF StartTag
<1>5. row.tag \in StartTags /\ row.tag \in Closing
  BY <1>1, <1>3 DEF Closing
<1>6. commands' = WrittenUpTo(q)[n]
  BY <1>3, <1>4, FlushWrites DEF Written
<1>7. n \in Nat /\ r \in Seq(Row) /\ Len(r) = n+1 /\ r[n+1] = row /\ n+1 \in 1..Len(r) /\ n \in 0..Len(q) /\ (n+1)-1 = n
      /\ (n+1)+1..n+1 = {}
  BY <1>3
<1>8. WrittenUpTo(r)[n] = WrittenUpTo(q)[n]
  BY <1>3, <1>5, <1>7, WrittenStays
<1>9. HeadRead(r, n+1, <<>>, <<>>, "IN_FIND")
  BY <1>3, HeadStarts
<1>. HIDE DEF r, n
<1>10. OpenSince(r, n+1)
  BY <1>5, <1>7 DEF OpenSince
<1>11. Reads(r, n+1, commands', cmdType', anchorLines', findLines', replaceLines', state')
  <2>1. \A k \in (n+1)+1..Len(r) : FALSE
    BY <1>7
  <2>. QED  BY <1>4, <1>6, <1>7, <1>8, <1>9, <1>10, <2>1 DEF Reads
<1>12. \E s \in 1..Len(patch') : Reads(patch', s, commands', cmdType', anchorLines', findLines', replaceLines', state')
  BY <1>3, <1>7, <1>11
<1>. QED  BY <1>4, <1>12 DEF KeepsUp

(* A line that is neither: what was written before the command that is     *)
(* open, and that it is open, stay as they are.                            *)
LEMMA StaysOpen ==
  ASSUME NEW q \in Seq(Row), NEW row \in Row, row.tag \notin Closing, NEW s \in 1..Len(q), OpenSince(q, s)
  PROVE  /\ OpenSince(Append(q, row), s) /\ Append(q, row)[s] = q[s]
         /\ WrittenUpTo(Append(q, row))[s-1] = WrittenUpTo(q)[s-1]
<1>. DEFINE r == Append(q, row)  n == Len(q)
<1>1. n \in Nat /\ r \in Seq(Row) /\ Len(r) = n+1 /\ r[n+1] = row /\ \A k \in 1..n : r[k] = q[k]
  OBVIOUS
<1>2. s \in 1..n /\ s-1 \in 0..Len(q)
  OBVIOUS
<1>3. \A i \in 1..s-1 : EndOf(q, i) <= Len(q)
  <2>1. q[s].tag \in Closing
    BY DEF OpenSince, Closing
  <2>. QED  BY <2>1, EndsBefore
<1>4. WrittenUpTo(r)[s-1] = WrittenUpTo(q)[s-1]
  BY <1>2, <1>3, WrittenStays
<1>. HIDE DEF r
<1>5. OpenSince(r, s)
  <2>1. \A k \in s+1..n+1 : k = n+1 \/ k \in s+1..n
    BY <1>1, <1>2
  <2>2. \A k \in s+1..n : r[k].tag \notin Closing
    BY <1>1, <1>2 DEF OpenSince
  <2>3. r[s] = q[s]
    BY <1>1, <1>2
  <2>. HIDE DEF n
  <2>. QED  BY <1>1, <2>1, <2>2, <2>3 DEF OpenSince
<1>. QED  BY <1>1, <1>2, <1>4, <1>5 DEF r
(* An anchor or a target tag: a new part is open.                          *)
LEMMA HeadTagKeepsUp ==
  ASSUME Inv, KeepsUp, AnchorTag \/ TargetTag
  PROVE  KeepsUp'
<1>. DEFINE q == patch
<1>1. PICK tag \in HeadTags :
        /\ Read(tag) /\ InBlockHead /\ cmdType' = cmdType /\ commands' = commands
        /\ anchorLines' = (IF tag = "ANCHOR" THEN <<>> ELSE anchorLines)
        /\ findLines' = (IF tag = "ANCHOR" THEN findLines ELSE <<>>)
        /\ state' = (IF tag = "ANCHOR" THEN "IN_ANCHOR" ELSE "IN_FIND")
  <2>1. "ANCHOR" \in HeadTags /\ "TARGET" \in HeadTags /\ "TARGET" # "ANCHOR"
    BY DEF HeadTags
  <2>2. CASE AnchorTag
    BY <2>1, <2>2 DEF AnchorTag
  <2>3. CASE TargetTag
    BY <2>1, <2>3 DEF TargetTag
  <2>. QED  BY <2>2, <2>3
<1>2. tag \in Tags \cup {""}
  BY <1>1 DEF Tags, HeadTags
<1>. DEFINE row == Line(tag)  r == Append(q, row)
<1>3. row \in Row /\ patch' = r /\ ~done /\ q \in Seq(Row) /\ row.tag = tag
  BY <1>1, <1>2, ReadsALine DEF Inv, LinesTyped, Line
<1>. HIDE DEF row
<1>4. row.tag \in HeadTags /\ row.tag \notin Closing /\ row.tag # "WITH"
  BY <1>1, <1>3 DEF Closing, StartTags, EndTags, HeadTags
<1>5. cmdType = "REPLACE_BLOCK" /\ state \in {"IN_ANCHOR", "IN_FIND"}
  BY <1>1 DEF InBlockHead
<1>6. PICK s \in 1..Len(q) : Reads(q, s, commands, cmdType, anchorLines, findLines, replaceLines, state)
  BY <1>3, <1>5 DEF KeepsUp
<1>7. /\ OpenSince(q, s) /\ q[s].tag = cmdType /\ commands = WrittenUpTo(q)[s-1]
      /\ HeadRead(q, s, anchorLines, findLines, state)
      /\ \A k \in s+1..Len(q) : q[k].tag # "WITH"
  BY <1>5, <1>6 DEF Reads
<1>8. OpenSince(r, s) /\ r[s] = q[s] /\ WrittenUpTo(r)[s-1] = WrittenUpTo(q)[s-1]
  BY <1>3, <1>4, <1>7, StaysOpen
<1>9. IsHead(q, s, row)
  BY <1>4, <1>5, <1>7 DEF IsHead
<1>10. HeadRead(r, s, anchorLines', findLines', state')
  <2>1. HeadRead(r, s, IF row.tag = "ANCHOR" THEN <<>> ELSE anchorLines,
                  IF row.tag = "ANCHOR" THEN findLines ELSE <<>>,
                  IF row.tag = "ANCHOR" THEN "IN_ANCHOR" ELSE "IN_FIND")
    BY <1>3, <1>7, <1>9, HeadInHead
  <2>. HIDE DEF r
  <2>. QED  BY <1>1, <1>3, <2>1
<1>11. \A k \in s+1..Len(r) : r[k].tag # "WITH"
  <2>1. \A k \in s+1..Len(r) : k = Len(q)+1 \/ k \in s+1..Len(q)
    BY <1>3
  <2>2. r[Len(q)+1] = row /\ \A k \in s+1..Len(q) : r[k] = q[k]
    BY <1>3
  <2>. HIDE DEF r
  <2>. QED  BY <1>4, <1>7, <2>1, <2>2
<1>12. s \in 1..Len(r)
  BY <1>3
<1>13. state' \in {"IN_ANCHOR", "IN_FIND"}
  BY <1>1
<1>. HIDE DEF r
<1>14. Reads(r, s, commands', cmdType', anchorLines', findLines', replaceLines', state')
  BY <1>1, <1>7, <1>8, <1>10, <1>11, <1>13 DEF Reads
<1>. QED  BY <1>3, <1>12, <1>13, <1>14 DEF KeepsUp

(* A with tag: the replacement is open.                                    *)
LEMMA WithTagKeepsUp ==
  ASSUME Inv, KeepsUp, WithTag
  PROVE  KeepsUp'
<1>. DEFINE q == patch  n == Len(patch)  row == Line("WITH")  r == Append(q, row)
<1>1. /\ Read("WITH") /\ state \in {"IN_ANCHOR", "IN_FIND"} /\ state' = "IN_REPLACE"
      /\ cmdType' = cmdType /\ commands' = commands /\ anchorLines' = anchorLines
      /\ findLines' = findLines /\ replaceLines' = replaceLines
  BY DEF WithTag, parts
<1>2. "WITH" \in Tags \cup {""}
  BY DEF Tags
<1>3. row \in Row /\ patch' = r /\ ~done /\ q \in Seq(Row) /\ row.tag = "WITH"
  BY <1>1, <1>2, ReadsALine DEF Inv, LinesTyped, Line
<1>. HIDE DEF row
<1>4. row.tag \notin Closing
  BY <1>3 DEF Closing, StartTags, EndTags
<1>6. PICK s \in 1..n : Reads(q, s, commands, cmdType, anchorLines, findLines, replaceLines, state)
  BY <1>1, <1>3 DEF KeepsUp
<1>7. /\ OpenSince(q, s) /\ q[s].tag = cmdType /\ commands = WrittenUpTo(q)[s-1]
      /\ HeadRead(q, s, anchorLines, findLines, state)
      /\ \A k \in s+1..n : q[k].tag # "WITH"
  BY <1>1, <1>6 DEF Reads
<1>8. OpenSince(r, s) /\ r[s] = q[s] /\ WrittenUpTo(r)[s-1] = WrittenUpTo(q)[s-1]
  BY <1>3, <1>4, <1>7, StaysOpen
<1>9. n \in Nat /\ r \in Seq(Row) /\ Len(r) = n+1 /\ r[n+1] = row /\ Same(q, r, n) /\ s \in 1..n
  BY <1>3 DEF Same
<1>. HIDE DEF r
<1>10. AnchorPart(r, s, n+1) = anchorLines /\ FindPart(r, s, n+1) = findLines
  <2>1. n+1 \in s+1..n+1 /\ n <= Len(q) /\ n <= Len(r)
    BY <1>9
  <2>2. AnchorPart(r, s, n+1) = AnchorPart(q, s, n+1) /\ FindPart(r, s, n+1) = FindPart(q, s, n+1)
    BY <1>3, <1>9, <2>1, SameParts
  <2>. QED  BY <1>7, <2>2 DEF HeadRead
<1>11. SubSeq(r, (n+1)+1, Len(r)) = <<>>
  <2>1. (n+1)+1 > Len(r) /\ Len(r) \in Int
    BY <1>9
  <2>. QED  BY <1>9, <2>1
<1>12. replaceLines = <<>>
  BY <1>1 DEF Inv, Open
<1>13. Divided(r, s, n+1)
  <2>1. \A k \in s+1..(n+1)-1 : r[k] = q[k] /\ k \in s+1..n
    BY <1>9 DEF Same
  <2>. QED  BY <1>3, <1>7, <1>9, <2>1 DEF Divided
<1>14. Holds(r, s, n+1, anchorLines', findLines', replaceLines')
  BY <1>1, <1>10, <1>11, <1>12 DEF Holds
<1>15. n+1 \in s+1..Len(r) /\ s \in 1..Len(r)
  BY <1>9
<1>. HIDE DEF n
<1>16. Reads(r, s, commands', cmdType', anchorLines', findLines', replaceLines', state')
  BY <1>1, <1>7, <1>8, <1>13, <1>14, <1>15 DEF Reads
<1>. QED  BY <1>1, <1>3, <1>15, <1>16 DEF KeepsUp

(* A line of content in each of the states.                                *)
Plain(row) ==
  /\ row.tag \notin Closing
  /\ state \in {"IN_FIND", "IN_ANCHOR"} => row.tag # "WITH" /\ ~(cmdType = "REPLACE_BLOCK" /\ row.tag \in HeadTags)

(* A line that belongs to the part that is open.                           *)
LEMMA PlainLineKeepsUp ==
  ASSUME Inv, KeepsUp, ~done, done' = FALSE, NEW row \in Row, Plain(row), patch' = Append(patch, row),
         anchorLines' = (IF state = "IN_ANCHOR" THEN Append(anchorLines, row) ELSE anchorLines),
         findLines' = (IF state = "IN_FIND" THEN Append(findLines, row) ELSE findLines),
         replaceLines' = (IF state = "IN_REPLACE" THEN Append(replaceLines, row) ELSE replaceLines),
         state' = state, cmdType' = cmdType, commands' = commands
  PROVE  KeepsUp'
<1>. DEFINE q == patch  n == Len(patch)  r == Append(q, row)
<1>1. state' = state /\ cmdType' = cmdType /\ commands' = commands
  OBVIOUS
<1>c. /\ anchorLines' = (IF state = "IN_ANCHOR" THEN Append(anchorLines, row) ELSE anchorLines)
      /\ findLines' = (IF state = "IN_FIND" THEN Append(findLines, row) ELSE findLines)
      /\ replaceLines' = (IF state = "IN_REPLACE" THEN Append(replaceLines, row) ELSE replaceLines)
  OBVIOUS
<1>3. row \in Row /\ patch' = r /\ ~done /\ q \in Seq(Row)
  BY DEF Inv, LinesTyped
<1>4. /\ row.tag \notin Closing /\ row.tag \notin StartTags
      /\ state \in {"IN_FIND", "IN_ANCHOR"} => row.tag # "WITH" /\ ~(cmdType = "REPLACE_BLOCK" /\ row.tag \in HeadTags)
  BY DEF Plain, Closing
<1>5. state \in {"OUTSIDE", "IN_FIND", "IN_ANCHOR", "IN_REPLACE"}
  BY DEF Inv, KissTypeOK
<1>6. /\ n \in Nat /\ r \in Seq(Row) /\ Len(r) = n+1 /\ r[n+1] = row /\ Same(q, r, n)
      /\ \A k \in 1..n : r[k] = q[k]
  BY <1>3 DEF Same
<1>7. CASE state = "OUTSIDE"
  <2>1. AllEnded(q) /\ commands = Written(q)
    BY <1>3, <1>7 DEF KeepsUp
  <2>2. WrittenUpTo(r)[n] = WrittenUpTo(q)[n]
    <3>1. n \in 0..Len(q)
      BY <1>6
    <3>. QED  BY <1>3, <2>1, <3>1, WrittenStays DEF AllEnded
  <2>3. ~IsWhole(r, n+1)
    BY <1>4, <1>6 DEF IsWhole
  <2>4. WrittenUpTo(r)[n+1] = WrittenUpTo(r)[n]
    <3>1. n+1 \in 1..Len(r) /\ (n+1)-1 = n
      BY <1>6
    <3>. HIDE DEF r
    <3>2. WrittenUpTo(r)[n+1] = WrittenUpTo(r)[(n+1)-1]
      BY <1>6, <2>3, <3>1, WrittenGrows
    <3>. QED  BY <3>1, <3>2
  <2>5. AllEnded(r)
    <3>. SUFFICES ASSUME NEW i \in 1..n+1, r[i].tag \in StartTags PROVE EndOf(r, i) <= n+1
      BY <1>6 DEF AllEnded
    <3>1. i \in 1..n
      BY <1>4, <1>6
    <3>2. EndOf(q, i) <= Len(q)
      BY <1>6, <2>1, <3>1 DEF AllEnded
    <3>3. EndOf(r, i) = EndOf(q, i)
      BY <1>3, <3>1, <3>2, SettledStays
    <3>4. EndOf(q, i) \in Int
      BY <1>3, <3>1, EndExists
    <3>. QED  BY <1>6, <3>2, <3>3, <3>4
  <2>. HIDE DEF r
  <2>. QED  BY <1>1, <1>3, <1>6, <1>7, <2>1, <2>2, <2>4, <2>5 DEF KeepsUp, Written
<1>8. CASE state # "OUTSIDE"
  <2>1. PICK s \in 1..n : Reads(q, s, commands, cmdType, anchorLines, findLines, replaceLines, state)
    BY <1>3, <1>8 DEF KeepsUp
  <2>2. /\ OpenSince(q, s) /\ q[s].tag = cmdType /\ commands = WrittenUpTo(q)[s-1]
    BY <2>1 DEF Reads
  <2>3. OpenSince(r, s) /\ r[s] = q[s] /\ WrittenUpTo(r)[s-1] = WrittenUpTo(q)[s-1]
    BY <1>3, <1>4, <2>2, StaysOpen
  <2>4. s \in 1..Len(r)
    BY <1>6
  <2>5. Reads(r, s, commands', cmdType', anchorLines', findLines', replaceLines', state')
    <3>1. CASE state \in {"IN_FIND", "IN_ANCHOR"}
      <4>1. HeadRead(q, s, anchorLines, findLines, state) /\ \A k \in s+1..n : q[k].tag # "WITH"
        BY <2>1, <3>1 DEF Reads
      <4>2. ~IsHead(q, s, row) /\ row.tag # "WITH"
        BY <1>4, <1>5, <2>2, <3>1 DEF IsHead
      <4>3. HeadRead(r, s, IF state = "IN_ANCHOR" THEN Append(anchorLines, row) ELSE anchorLines,
                     IF state = "IN_ANCHOR" THEN findLines ELSE Append(findLines, row), state)
        BY <1>3, <4>1, <4>2, ContentInHead
      <4>. HIDE DEF r
      <4>4. HeadRead(r, s, anchorLines', findLines', state')
        BY <1>1, <1>c, <3>1, <4>3
      <4>5. \A k \in s+1..Len(r) : r[k].tag # "WITH"
        <5>1. \A k \in s+1..Len(r) : k = n+1 \/ (k \in s+1..n /\ k \in 1..n)
          <6>1. n \in Nat /\ s \in 1..n /\ Len(r) = n+1
            BY <1>6
          <6>. HIDE DEF n
          <6>. QED  BY ONLY <6>1
        <5>. HIDE DEF n
        <5>. QED  BY <1>6, <4>1, <4>2, <5>1
      <4>. HIDE DEF n
      <4>. QED  BY <1>1, <2>2, <2>3, <3>1, <4>4, <4>5 DEF Reads
    <3>2. CASE state = "IN_REPLACE"
      <4>1. PICK w \in s+1..n : Divided(q, s, w) /\ Holds(q, s, w, anchorLines, findLines, replaceLines)
        BY <2>1, <3>2 DEF Reads
      <4>. HIDE DEF r
      <4>2. Divided(r, s, w)
        <5>1. w \in 1..n /\ \A k \in s+1..w-1 : k \in 1..n
          BY <1>6, <4>1
        <5>. QED  BY <1>6, <4>1, <5>1 DEF Divided
      <4>3. AnchorPart(r, s, w) = anchorLines /\ FindPart(r, s, w) = findLines
        <5>1. n <= Len(q) /\ n <= Len(r) /\ w \in s+1..n+1
          BY <1>6, <4>1
        <5>2. AnchorPart(r, s, w) = AnchorPart(q, s, w) /\ FindPart(r, s, w) = FindPart(q, s, w)
          BY <1>3, <1>6, <5>1, SameParts
        <5>. QED  BY <4>1, <5>2 DEF Holds
      <4>4. SubSeq(r, w+1, n+1) = Append(SubSeq(q, w+1, n), row)
        <5>1. w \in 0..Len(q)
          BY <1>6, <4>1
        <5>2. SubSeq(Append(q, row), w+1, Len(q)+1) = Append(SubSeq(q, w+1, Len(q)), row)
          BY <1>3, <5>1, RunGrows, Zenon
        <5>. QED  BY <5>2, Zenon DEF r
      <4>5. Holds(r, s, w, anchorLines', findLines', replaceLines')
        BY <1>1, <1>c, <1>6, <3>2, <4>1, <4>3, <4>4 DEF Holds
      <4>6. w \in s+1..Len(r)
        BY <1>6, <4>1
      <4>. HIDE DEF n
      <4>. QED  BY <1>1, <2>2, <2>3, <3>2, <4>2, <4>5, <4>6 DEF Reads
    <3>. QED  BY <1>5, <1>8, <3>1, <3>2
  <2>. HIDE DEF r
  <2>. QED  BY <1>1, <1>3, <1>8, <2>4, <2>5 DEF KeepsUp
<1>. QED  BY <1>7, <1>8

(* Every line that is no tag here is such a line.                          *)
LEMMA ContentKeepsUp ==
  ASSUME Inv, KeepsUp, Content
  PROVE  KeepsUp'
<1>1. PICK tag \in {"", "WITH", "ANCHOR", "TARGET"} :
        /\ Read(tag) /\ IsContent(tag)
        /\ anchorLines' = (IF state = "IN_ANCHOR" THEN Append(anchorLines, Line(tag)) ELSE anchorLines)
        /\ findLines' = (IF state = "IN_FIND" THEN Append(findLines, Line(tag)) ELSE findLines)
        /\ replaceLines' = (IF state = "IN_REPLACE" THEN Append(replaceLines, Line(tag)) ELSE replaceLines)
        /\ state' = state /\ cmdType' = cmdType /\ commands' = commands
  BY DEF Content
<1>2. tag \in Tags \cup {""}
  BY <1>1 DEF Tags
<1>3. Line(tag) \in Row /\ patch' = Append(patch, Line(tag)) /\ ~done /\ done' = FALSE
  BY <1>1, <1>2, ReadsALine
<1>4. Plain(Line(tag))
  <2>1. Line(tag).tag = tag
    BY DEF Line
  <2>2. tag \notin Closing
    BY DEF Closing, StartTags, EndTags
  <2>3. state \in {"IN_FIND", "IN_ANCHOR"} => tag # "WITH" /\ ~(cmdType = "REPLACE_BLOCK" /\ tag \in HeadTags)
    BY <1>1 DEF IsContent, InBlockHead, HeadTags
  <2>. QED  BY <2>1, <2>2, <2>3 DEF Plain
<1>. DEFINE row == Line(tag)
<1>5. /\ row \in Row /\ patch' = Append(patch, row) /\ ~done /\ done' = FALSE /\ Plain(row)
      /\ anchorLines' = (IF state = "IN_ANCHOR" THEN Append(anchorLines, row) ELSE anchorLines)
      /\ findLines' = (IF state = "IN_FIND" THEN Append(findLines, row) ELSE findLines)
      /\ replaceLines' = (IF state = "IN_REPLACE" THEN Append(replaceLines, row) ELSE replaceLines)
      /\ state' = state /\ cmdType' = cmdType /\ commands' = commands
  BY <1>1, <1>3, <1>4
<1>. HIDE DEF row
<1>. QED  BY ONLY Inv, KeepsUp, <1>5, PlainLineKeepsUp, Zenon

-----------------------------------------------------------------------------
(* Line by line the parser finds the commands that were written in the     *)
(* patch, whatever its length: each once, in order, with its own lines     *)
(* (main.go:100-183).                                                      *)
THEOREM ParserReadsAll == KissSpec => []ParsesWhatIsWritten
<1>. DEFINE All == KeepsUp /\ ParsesWhatIsWritten
<1>1. KissInit => All
  <2>. SUFFICES ASSUME KissInit PROVE All
    OBVIOUS
  <2>1. patch = <<>> /\ commands = <<>> /\ done = FALSE /\ state = "OUTSIDE"
    BY DEF KissInit
  <2>2. patch \in Seq(Row) /\ Len(patch) = 0
    BY <2>1
  <2>3. Written(patch) = <<>>
    BY <2>2, WrittenGrows DEF Written
  <2>4. AllEnded(patch)
    BY <2>2 DEF AllEnded
  <2>. QED  BY <2>1, <2>3, <2>4 DEF KeepsUp, ParsesWhatIsWritten
<1>2. Inv /\ All /\ [KissNext]_kissVars => All'
  <2>. SUFFICES ASSUME Inv, All, [KissNext]_kissVars PROVE All'
    OBVIOUS
  <2>r. ASSUME NEW tag, Read(tag) PROVE ParsesWhatIsWritten'
    BY <2>r DEF Read, ParsesWhatIsWritten
  <2>1. CASE EndTag
    BY <2>1, <2>r, EndTagKeepsUp DEF EndTag
  <2>2. CASE StartTag
    BY <2>2, <2>r, StartTagKeepsUp DEF StartTag
  <2>3. CASE AnchorTag
    BY <2>3, <2>r, HeadTagKeepsUp DEF AnchorTag
  <2>4. CASE TargetTag
    BY <2>4, <2>r, HeadTagKeepsUp DEF TargetTag
  <2>5. CASE WithTag
    BY <2>5, <2>r, WithTagKeepsUp DEF WithTag
  <2>6. CASE Content
    BY <2>6, <2>r, ContentKeepsUp DEF Content
  <2>7. CASE EndOfPatch
    <3>1. commands' = Written(patch) /\ patch' = patch /\ done'
      BY <2>7, FlushWrites DEF EndOfPatch
    <3>. QED  BY <3>1 DEF KeepsUp, ParsesWhatIsWritten
  <2>8. CASE UNCHANGED kissVars
    BY <2>8 DEF kissVars, KeepsUp, ParsesWhatIsWritten
  <2>. QED  BY <2>1, <2>2, <2>3, <2>4, <2>5, <2>6, <2>7, <2>8 DEF KissNext
<1>3. All => ParsesWhatIsWritten
  OBVIOUS
<1>. QED  BY <1>1, <1>2, <1>3, ParserInvariant, PTL DEF KissSpec

-----------------------------------------------------------------------------
(* LineDiff, for any two texts and any budget: the way back stays inside,  *)
(* the edits found are a shortest script, and the hunks turn the old text  *)
(* into the new one.                                                       *)

LineSeq == Seq(Lines)

-----------------------------------------------------------------------------
LEMMA LesserOfTwo ==
  ASSUME NEW m \in Int, NEW n \in Int
  PROVE  Min({m, n}) = IF m <= n THEN m ELSE n
BY DEF Min

LEMMA GreaterOfTwo ==
  ASSUME NEW m \in Int, NEW n \in Int
  PROVE  Max({m, n}) = IF m <= n THEN n ELSE m
BY DEF Max

-----------------------------------------------------------------------------
(* Frontiers. A point (u, v) lies on the diagonal u - v.                   *)

\* The diagonals that a distance reaches, and those next to them.
LEMMA DiagonalsAre ==
  ASSUME NEW d \in Nat
  PROVE  /\ Diagonals(d) \subseteq -d..d
         /\ Diagonals(0) = {0}
         /\ \A k \in Diagonals(d) : k - 1 \in Diagonals(d + 1) /\ k + 1 \in Diagonals(d + 1)
         /\ \A k \in Diagonals(d + 1) :
              /\ k # -(d + 1) => k - 1 \in Diagonals(d)
              /\ k # d + 1 => k + 1 \in Diagonals(d)
BY SMT DEF Diagonals

\* w is where the equal lines that follow the point (u, v) of texts b and a end.
Furthers(b, a, u, v, w) ==
  /\ w \in Int /\ u <= w
  /\ u < w => w <= Len(b) /\ v + (w - u) <= Len(a)
  /\ \A i \in 1..w - u : b[u + i] = a[v + i]
  /\ w < Len(b) /\ v + (w - u) < Len(a) => b[w + 1] # a[v + (w - u) + 1]

LEMMA SnakeIs ==
  ASSUME before \in LineSeq, after \in LineSeq, NEW u \in Nat, NEW v \in Nat
  PROVE  Snake(u, v) \in Nat /\ Furthers(before, after, u, v, u + Snake(u, v))
<1> DEFINE N == Len(before)
           M == Len(after)
           m == Min({N - u, M - v})
           S == {0} \union {n \in 0..m : \A i \in 1..n : before[u + i] = after[v + i]}
<1>1. N \in Nat /\ M \in Nat
  BY LenProperties DEF LineSeq
<1>2. m = IF N - u <= M - v THEN N - u ELSE M - v
  BY <1>1, LesserOfTwo
<1> HIDE DEF m
<1>3. S \in SUBSET (0..N) /\ S # {}
  BY <1>1, <1>2
<1>4. Max(S) \in S /\ \A k \in S : k <= Max(S)
  <2> HIDE DEF S, N
  <2> QED
    BY <1>1, <1>3, GreatestNatural
<1> DEFINE s == Snake(u, v)
<1>5. s = Max(S)
  BY DEF Snake, m
<1> HIDE DEF s
<1>6. s \in Nat /\ (s > 0 => s <= m) /\ \A i \in 1..s : before[u + i] = after[v + i]
  <2>1. s \in S
    BY <1>4, <1>5
  <2> QED
    BY <1>2, <2>1
<1>7. ~(u + s < N /\ v + s < M /\ before[u + s + 1] = after[v + s + 1])
  <2> SUFFICES ASSUME u + s < N, v + s < M, before[u + s + 1] = after[v + s + 1]
               PROVE  FALSE
    OBVIOUS
  <2>1. s + 1 \in 0..m
    BY <1>1, <1>2, <1>6
  <2>2. \A i \in 1..s + 1 : before[u + i] = after[v + i]
    <3> SUFFICES ASSUME NEW i \in 1..s + 1 PROVE before[u + i] = after[v + i]
      OBVIOUS
    <3>1. i \in 1..s \/ i = s + 1
      BY <1>6
    <3>2. u + (s + 1) = u + s + 1 /\ v + (s + 1) = v + s + 1
      BY <1>6
    <3> QED
      BY <1>6, <3>1, <3>2
  <2>3. s + 1 \in S
    BY <2>1, <2>2
  <2>4. s + 1 <= s
    <3> HIDE DEF S
    <3> QED
      BY <1>4, <1>5, <2>3
  <2> QED
    BY <1>6, <2>4
<1>8. (u + s) - u = s
  BY <1>6
<1> HIDE DEF S
<1>9. Furthers(before, after, u, v, u + s)
  <2>1. u + s \in Int /\ u <= u + s
    BY <1>6
  <2>2. u < u + s => u + s <= N /\ v + s <= M
    BY <1>1, <1>2, <1>6
  <2>3. u + s < N /\ v + s < M => before[u + s + 1] # after[v + s + 1]
    BY <1>7
  <2> QED
    BY <1>6, <1>8, <2>1, <2>2, <2>3 DEF Furthers
<1> QED
  BY <1>6, <1>9 DEF s

\* Where the search leaves a frontier from, on its way to diagonal k.
Comes(f, d, k) == IF Origin(f, d, k) = k + 1 THEN f[k + 1] ELSE f[k - 1] + 1

LEMMA FurthestIs ==
  ASSUME before \in LineSeq, after \in LineSeq, NEW f, NEW d, NEW k \in Int,
         Comes(f, d, k) \in Nat, Comes(f, d, k) - k \in Nat
  PROVE  Furthest(f, d, k) \in Int
         /\ Furthers(before, after, Comes(f, d, k), Comes(f, d, k) - k, Furthest(f, d, k))
<1> DEFINE u == Comes(f, d, k)
<1>1. Furthest(f, d, k) = u + Snake(u, u - k)
  BY DEF Furthest, Comes
<1> HIDE DEF u
<1>2. u \in Nat /\ u - k \in Nat
  BY DEF u
<1>3. Snake(u, u - k) \in Nat /\ Furthers(before, after, u, u - k, u + Snake(u, u - k))
  BY <1>2, SnakeIs
<1> QED
  BY <1>1, <1>2, <1>3 DEF u

\* tr[d + 1] is the frontier that distance d leaves; there are n of them.
Frontiers(b, a, tr, n) ==
  /\ n > 0 => Furthers(b, a, 0, 0, tr[1][0])
  /\ \A d \in 1..n - 1 : \A k \in Diagonals(d) :
       Furthers(b, a, Comes(tr[d], d, k), Comes(tr[d], d, k) - k, tr[d + 1][k])

LEMMA OriginIs ==
  ASSUME NEW d \in Nat, NEW k \in Diagonals(d + 1), NEW f, \A j \in Diagonals(d) : f[j] \in Int
  PROVE  LET u == Comes(f, d + 1, k)
         IN /\ k \in Int /\ u \in Int
            /\ \/ Origin(f, d + 1, k) = k + 1 /\ k + 1 \in Diagonals(d) /\ u = f[k + 1]
               \/ Origin(f, d + 1, k) = k - 1 /\ k - 1 \in Diagonals(d) /\ u = f[k - 1] + 1
            /\ k + 1 \in Diagonals(d) => u >= f[k + 1]
            /\ k - 1 \in Diagonals(d) => u >= f[k - 1] + 1
<1>1. k \in -(d + 1)..d + 1 /\ Diagonals(d) \subseteq -d..d
  BY DiagonalsAre
<1>2. /\ k # -(d + 1) => k - 1 \in Diagonals(d)
      /\ k # d + 1 => k + 1 \in Diagonals(d)
  BY DiagonalsAre
<1>3. /\ k = -(d + 1) => k - 1 \notin Diagonals(d)
      /\ k = d + 1 => k + 1 \notin Diagonals(d)
  BY <1>1
<1>4. k + 1 # k - 1
  BY <1>1
<1>5. CASE k = -(d + 1)
  <2>1. k # d + 1
    BY <1>1, <1>5
  <2>2. Origin(f, d + 1, k) = k + 1 /\ Comes(f, d + 1, k) = f[k + 1]
    BY <1>5 DEF Origin, Comes
  <2> QED
    BY <1>1, <1>2, <1>3, <1>5, <2>1, <2>2
<1>6. CASE k # -(d + 1) /\ k = d + 1
  <2>1. Origin(f, d + 1, k) = k - 1 /\ Comes(f, d + 1, k) = f[k - 1] + 1
    BY <1>4, <1>6 DEF Origin, Comes
  <2> QED
    BY <1>1, <1>2, <1>3, <1>6, <2>1
<1>7. CASE k # -(d + 1) /\ k # d + 1
  <2>1. f[k - 1] \in Int /\ f[k + 1] \in Int
    BY <1>2, <1>7
  <2>2. CASE f[k - 1] < f[k + 1]
    <3>1. Origin(f, d + 1, k) = k + 1 /\ Comes(f, d + 1, k) = f[k + 1]
      BY <1>7, <2>2 DEF Origin, Comes
    <3> QED
      BY <1>1, <1>2, <1>7, <2>1, <2>2, <3>1
  <2>3. CASE ~(f[k - 1] < f[k + 1])
    <3>1. Origin(f, d + 1, k) = k - 1 /\ Comes(f, d + 1, k) = f[k - 1] + 1
      BY <1>4, <1>7, <2>3 DEF Origin, Comes
    <3> QED
      BY <1>1, <1>2, <1>7, <2>1, <2>3, <3>1
  <2> QED
    BY <2>2, <2>3
<1> QED
  BY <1>5, <1>6, <1>7

\* Every point that is reached lies right of and below the start.
Right(f, d) == \A k \in Diagonals(d) : f[k] \in Int /\ f[k] >= 0 /\ f[k] >= k

LEMMA ComesRight ==
  ASSUME NEW d \in Nat, NEW f, Right(f, d), NEW k \in Diagonals(d + 1)
  PROVE  Comes(f, d + 1, k) \in Nat /\ Comes(f, d + 1, k) - k \in Nat
<1>1. \A j \in Diagonals(d) : f[j] \in Int
  BY DEF Right
<1> DEFINE u == Comes(f, d + 1, k)
<1>2. /\ k \in Int /\ u \in Int
      /\ \/ k + 1 \in Diagonals(d) /\ u = f[k + 1]
         \/ k - 1 \in Diagonals(d) /\ u = f[k - 1] + 1
  BY <1>1, OriginIs
<1> HIDE DEF u
<1>3. CASE k + 1 \in Diagonals(d) /\ u = f[k + 1]
  <2>1. f[k + 1] >= 0 /\ f[k + 1] >= k + 1
    BY <1>3 DEF Right
  <2> QED
    BY <1>2, <1>3, <2>1 DEF u
<1>4. CASE k - 1 \in Diagonals(d) /\ u = f[k - 1] + 1
  <2>1. f[k - 1] >= 0 /\ f[k - 1] >= k - 1 /\ f[k - 1] \in Int
    BY <1>4 DEF Right
  <2> QED
    BY <1>2, <1>4, <2>1 DEF u
<1> QED
  BY <1>2, <1>3, <1>4

LEMMA Reaches ==
  ASSUME NEW b, NEW a, NEW tr, NEW n \in Nat, Frontiers(b, a, tr, n)
  PROVE  \A d \in 0..n - 1 : Right(tr[d + 1], d)
<1> DEFINE S == {d \in 0..n - 1 : Right(tr[d + 1], d)}
<1> SUFFICES ASSUME n > 0 PROVE \A d \in 0..n - 1 : d \in S
  OBVIOUS
<1>1. 0 \in S
  <2>1. Furthers(b, a, 0, 0, tr[1][0])
    BY DEF Frontiers
  <2>2. tr[1][0] \in Int /\ 0 <= tr[1][0]
    BY <2>1 DEF Furthers
  <2>3. 0 + 1 = 1
    OBVIOUS
  <2>4. Right(tr[0 + 1], 0)
    BY <2>2, <2>3, DiagonalsAre DEF Right
  <2> QED
    BY <2>4
<1>2. ASSUME NEW d \in 0..(n - 1) - 1, d \in S PROVE d + 1 \in S
  <2>1. d \in Nat /\ d + 1 \in 1..n - 1 /\ d + 1 \in 0..n - 1
    OBVIOUS
  <2>2. Right(tr[d + 1], d)
    BY <1>2
  <2>3. ASSUME NEW k \in Diagonals(d + 1)
        PROVE  tr[(d + 1) + 1][k] \in Int /\ tr[(d + 1) + 1][k] >= 0 /\ tr[(d + 1) + 1][k] >= k
    <3> DEFINE u == Comes(tr[d + 1], d + 1, k)
               w == tr[(d + 1) + 1][k]
    <3>1. Furthers(b, a, u, u - k, w)
      BY <2>1 DEF Frontiers
    <3>2. u \in Nat /\ u - k \in Nat /\ k \in Int
      BY <2>1, <2>2, ComesRight, DiagonalsAre
    <3> HIDE DEF u, w
    <3>3. w \in Int /\ u <= w
      BY <3>1 DEF Furthers
    <3>4. w >= 0 /\ w >= k
      BY <3>2, <3>3
    <3> QED
      BY <3>3, <3>4 DEF w
  <2>4. Right(tr[(d + 1) + 1], d + 1)
    BY <2>3 DEF Right
  <2> QED
    BY <2>1, <2>4
<1>3. 0 \in Nat /\ n - 1 \in Nat
  OBVIOUS
<1> HIDE DEF S
<1> QED
  BY ONLY <1>1, <1>2, <1>3, Upwards

\* How a point of one distance comes from one of the distance before.
LEMMA Moves ==
  ASSUME NEW b, NEW a, NEW tr, NEW n \in Nat, Frontiers(b, a, tr, n),
         NEW d \in Nat, d + 1 <= n - 1, NEW k \in Diagonals(d + 1)
  PROVE  LET f == tr[d + 1]
             u == Comes(f, d + 1, k)
             w == tr[d + 2][k]
         IN /\ k \in Int /\ u \in Nat /\ u - k \in Nat /\ w \in Int /\ Furthers(b, a, u, u - k, w)
            /\ \/ Origin(f, d + 1, k) = k + 1 /\ k + 1 \in Diagonals(d) /\ u = f[k + 1]
               \/ Origin(f, d + 1, k) = k - 1 /\ k - 1 \in Diagonals(d) /\ u = f[k - 1] + 1
            /\ k + 1 \in Diagonals(d) => w >= f[k + 1]
            /\ k - 1 \in Diagonals(d) => w >= f[k - 1] + 1
<1> DEFINE f == tr[d + 1]
           u == Comes(f, d + 1, k)
           w == tr[d + 2][k]
<1>1. d \in 0..n - 1 /\ d + 1 \in 1..n - 1 /\ (d + 1) + 1 = d + 2
  OBVIOUS
<1>2. Right(f, d)
  BY <1>1, Reaches
<1>3. \A j \in Diagonals(d) : f[j] \in Int
  BY <1>2 DEF Right
<1>4. Furthers(b, a, u, u - k, w)
  BY <1>1 DEF Frontiers
<1>5. /\ k \in Int /\ u \in Int
      /\ \/ Origin(f, d + 1, k) = k + 1 /\ k + 1 \in Diagonals(d) /\ u = f[k + 1]
         \/ Origin(f, d + 1, k) = k - 1 /\ k - 1 \in Diagonals(d) /\ u = f[k - 1] + 1
      /\ k + 1 \in Diagonals(d) => u >= f[k + 1]
      /\ k - 1 \in Diagonals(d) => u >= f[k - 1] + 1
  <2> HIDE DEF f
  <2> QED
    BY <1>3, OriginIs
<1>6. u \in Nat /\ u - k \in Nat
  <2> HIDE DEF f
  <2> QED
    BY <1>2, ComesRight
<1> HIDE DEF u, w, f
<1>7. w \in Int /\ u <= w
  BY <1>4 DEF Furthers
<1>8. /\ k + 1 \in Diagonals(d) => w >= f[k + 1]
      /\ k - 1 \in Diagonals(d) => w >= f[k - 1] + 1
  BY <1>3, <1>5, <1>7
<1> QED
  BY <1>4, <1>5, <1>6, <1>7, <1>8 DEF u, w, f

\* A point past the end of a text could have been reached earlier without the
\* line that leads past it.
Past(b, a, tr, d) ==
  \A k \in Diagonals(d) :
    LET w == tr[d + 1][k]
    IN /\ w - k > Len(a) => d > 0 /\ k + 1 \in Diagonals(d - 1) /\ tr[d][k + 1] >= w
       /\ w > Len(b) => d > 0 /\ k - 1 \in Diagonals(d - 1) /\ tr[d][k - 1] >= w - 1

LEMMA PastAgain ==
  ASSUME NEW b \in LineSeq, NEW a \in LineSeq, NEW tr, NEW n \in Nat, Frontiers(b, a, tr, n),
         NEW d \in Nat, d + 1 <= n - 1, Past(b, a, tr, d)
  PROVE  Past(b, a, tr, d + 1)
<1>1. Len(b) \in Nat /\ Len(a) \in Nat
  BY LenProperties DEF LineSeq
<1> DEFINE f == tr[d + 1]
<1>2. Right(f, d)
  <2>1. d \in 0..n - 1
    OBVIOUS
  <2> QED
    BY <2>1, Reaches
<1> SUFFICES ASSUME NEW k \in Diagonals(d + 1)
             PROVE  LET w == tr[(d + 1) + 1][k]
                    IN /\ w - k > Len(a) => d + 1 > 0 /\ k + 1 \in Diagonals((d + 1) - 1) /\ f[k + 1] >= w
                       /\ w > Len(b) => d + 1 > 0 /\ k - 1 \in Diagonals((d + 1) - 1) /\ f[k - 1] >= w - 1
  BY DEF Past
<1> DEFINE u == Comes(f, d + 1, k)
           w == tr[d + 2][k]
<1>3. (d + 1) + 1 = d + 2 /\ (d + 1) - 1 = d /\ d + 1 > 0
  OBVIOUS
<1>4. /\ k \in Int /\ u \in Nat /\ u - k \in Nat /\ w \in Int /\ Furthers(b, a, u, u - k, w)
      /\ \/ k + 1 \in Diagonals(d) /\ u = f[k + 1]
         \/ k - 1 \in Diagonals(d) /\ u = f[k - 1] + 1
  BY Moves
<1> HIDE DEF u, w
<1>5. u <= w /\ (u < w => w <= Len(b) /\ (u - k) + (w - u) <= Len(a))
  BY <1>4 DEF Furthers
<1>6. (w - k > Len(a) \/ w > Len(b)) => w = u
  BY <1>1, <1>4, <1>5
\* The step before the last one.
<1>7. ASSUME d > 0, NEW j \in Diagonals(d)
      PROVE  /\ j + 1 \in Diagonals(d - 1) => f[j] >= tr[d][j + 1]
             /\ j - 1 \in Diagonals(d - 1) => f[j] >= tr[d][j - 1] + 1
  <2> DEFINE e == d - 1
  <2>1. e \in Nat /\ e + 1 = d /\ e + 2 = d + 1 /\ e + 1 <= n - 1
    BY <1>7
  <2>2. j \in Diagonals(e + 1)
    BY <2>1
  <2> HIDE DEF e
  <2>3. /\ j + 1 \in Diagonals(e) => tr[e + 2][j] >= tr[e + 1][j + 1]
        /\ j - 1 \in Diagonals(e) => tr[e + 2][j] >= tr[e + 1][j - 1] + 1
    BY <2>1, <2>2, Moves
  <2> QED
    BY <2>1, <2>3 DEF e
<1>8. ASSUME d > 0, NEW j \in Diagonals(d - 1)
      PROVE  j \in Int /\ j - 1 \in Diagonals(d) /\ j + 1 \in Diagonals(d)
  <2>1. d - 1 \in Nat /\ (d - 1) + 1 = d
    BY <1>8
  <2> QED
    BY <2>1, <1>8, DiagonalsAre
<1>9. /\ w - k > Len(a) => k + 1 \in Diagonals(d) /\ f[k + 1] >= w
  <2> SUFFICES ASSUME w - k > Len(a), k - 1 \in Diagonals(d), u = f[k - 1] + 1
               PROVE  k + 1 \in Diagonals(d) /\ f[k + 1] >= w
    BY <1>4, <1>6
  <2>0. w - k > Len(a)
    OBVIOUS
  <2>1. f[k - 1] \in Int /\ w = f[k - 1] + 1
    BY <1>2, <1>6 DEF Right
  <2>2. f[k - 1] - (k - 1) > Len(a) /\ (k - 1) + 1 = k
    <3> HIDE DEF f
    <3> QED
      BY ONLY SMTT(30), <1>1, <1>4, <2>0, <2>1
  <2>3. d > 0 /\ k \in Diagonals(d - 1) /\ tr[d][k] >= f[k - 1]
    BY <2>2 DEF Past
  <2>4. k + 1 \in Diagonals(d)
    BY <1>8, <2>3
  <2>5. (k + 1) - 1 = k
    BY <1>4
  <2>6. f[k + 1] >= tr[d][k] + 1
    BY <1>7, <2>3, <2>4, <2>5
  <2>7. f[k + 1] \in Int
    BY <1>2, <2>4 DEF Right
  <2>8. tr[d][k] \in Int
    <3>1. d - 1 \in 0..n - 1 /\ (d - 1) + 1 = d
      BY <2>3
    <3>2. Right(tr[(d - 1) + 1], d - 1)
      BY <3>1, Reaches
    <3> QED
      BY <2>3, <3>1, <3>2 DEF Right
  <2> HIDE DEF f
  <2> QED
    BY <2>1, <2>3, <2>4, <2>6, <2>7, <2>8
<1>10. w > Len(b) => k - 1 \in Diagonals(d) /\ f[k - 1] >= w - 1
  <2>1. CASE k - 1 \in Diagonals(d) /\ u = f[k - 1] + 1
    <3>1. f[k - 1] \in Int
      BY <1>2, <2>1 DEF Right
    <3> HIDE DEF f
    <3>2. ASSUME w > Len(b) PROVE f[k - 1] >= w - 1
      <4>1. w = f[k - 1] + 1
        BY <1>6, <2>1, <3>2
      <4> QED
        BY ONLY <3>1, <4>1
    <3> QED
      BY <2>1, <3>2
  <2> SUFFICES ASSUME w > Len(b), k + 1 \in Diagonals(d), u = f[k + 1]
               PROVE  k - 1 \in Diagonals(d) /\ f[k - 1] >= w - 1
    BY <1>4, <2>1
  <2>2. f[k + 1] \in Int /\ w = f[k + 1]
    BY <1>2, <1>6 DEF Right
  <2>3. (k + 1) - 1 = k /\ (k - 1) + 1 = k
    BY <1>4
  <2>4. d > 0 /\ k \in Diagonals(d - 1) /\ tr[d][k] >= f[k + 1] - 1
    BY <2>2, <2>3 DEF Past
  <2>5. k - 1 \in Diagonals(d)
    BY <1>8, <2>4
  <2>6. f[k - 1] >= tr[d][k]
    BY <1>7, <2>3, <2>4, <2>5
  <2>7. f[k - 1] \in Int
    BY <1>2, <2>5 DEF Right
  <2>8. tr[d][k] \in Int
    <3>1. d - 1 \in 0..n - 1 /\ (d - 1) + 1 = d
      BY <2>4
    <3>2. Right(tr[(d - 1) + 1], d - 1)
      BY <3>1, Reaches
    <3> QED
      BY <2>4, <3>1, <3>2 DEF Right
  <2> HIDE DEF f
  <2> QED
    BY <2>2, <2>4, <2>5, <2>6, <2>7, <2>8
<1> QED
  BY <1>3, <1>9, <1>10 DEF w

LEMMA PastAll ==
  ASSUME NEW b \in LineSeq, NEW a \in LineSeq, NEW tr, NEW n \in Nat, Frontiers(b, a, tr, n)
  PROVE  \A d \in 0..n - 1 : Past(b, a, tr, d)
<1> DEFINE S == {d \in 0..n - 1 : Past(b, a, tr, d)}
<1> SUFFICES ASSUME n > 0 PROVE \A d \in 0..n - 1 : d \in S
  OBVIOUS
<1>1. 0 \in S
  <2> DEFINE w == tr[1][0]
  <2>1. Len(b) \in Nat /\ Len(a) \in Nat
    BY LenProperties DEF LineSeq
  <2>2. Furthers(b, a, 0, 0, w)
    BY DEF Frontiers
  <2> HIDE DEF w
  <2>3. w \in Int /\ 0 <= w /\ (0 < w => w <= Len(b) /\ 0 + (w - 0) <= Len(a))
    BY <2>2 DEF Furthers
  <2>4. ~(w - 0 > Len(a)) /\ ~(w > Len(b))
    BY <2>1, <2>3
  <2>5. 0 + 1 = 1 /\ Diagonals(0) = {0}
    BY DiagonalsAre
  <2>6. Past(b, a, tr, 0)
    BY <2>4, <2>5 DEF Past, w
  <2> QED
    BY <2>6
<1>2. ASSUME NEW d \in 0..(n - 1) - 1, d \in S PROVE d + 1 \in S
  <2>1. d \in Nat /\ d + 1 <= n - 1 /\ d + 1 \in 0..n - 1
    OBVIOUS
  <2> QED
    BY <1>2, <2>1, PastAgain
<1>3. 0 \in Nat /\ n - 1 \in Nat
  OBVIOUS
<1> HIDE DEF S
<1> QED
  BY ONLY <1>1, <1>2, <1>3, Upwards

\* A frontier none of whose points is at the end of both texts.
NotEnded(b, a, f, d) == \A k \in Diagonals(d) : ~(f[k] >= Len(b) /\ f[k] - k >= Len(a))

\* The first point past the ends is at the ends.
LEMMA EndIsEnd ==
  ASSUME NEW b \in LineSeq, NEW a \in LineSeq, NEW tr, NEW n \in Nat, n > 0, Frontiers(b, a, tr, n),
         \A d \in 0..n - 2 : NotEnded(b, a, tr[d + 1], d), ~NotEnded(b, a, tr[n], n - 1)
  PROVE  Len(b) - Len(a) \in Diagonals(n - 1) /\ tr[n][Len(b) - Len(a)] = Len(b)
<1>1. Len(b) \in Nat /\ Len(a) \in Nat
  BY LenProperties DEF LineSeq
<1>2. PICK k \in Diagonals(n - 1) : tr[n][k] >= Len(b) /\ tr[n][k] - k >= Len(a)
  BY DEF NotEnded
<1> DEFINE w == tr[n][k]
<1>3. n - 1 \in 0..n - 1 /\ (n - 1) + 1 = n /\ n - 1 \in Nat
  OBVIOUS
<1>4. w \in Int /\ k \in Int
  <2>1. Right(tr[(n - 1) + 1], n - 1)
    BY <1>3, Reaches
  <2> QED
    BY <1>3, <2>1, DiagonalsAre DEF Right
<1>5. Past(b, a, tr, n - 1)
  BY <1>3, PastAll
<1>6. /\ w - k > Len(a) => n - 1 > 0 /\ k + 1 \in Diagonals((n - 1) - 1) /\ tr[n - 1][k + 1] >= w
      /\ w > Len(b) => n - 1 > 0 /\ k - 1 \in Diagonals((n - 1) - 1) /\ tr[n - 1][k - 1] >= w - 1
  BY <1>3, <1>5 DEF Past
<1>7. ASSUME n - 1 > 0, NEW j \in Diagonals((n - 1) - 1)
      PROVE  tr[n - 1][j] \in Int /\ ~(tr[n - 1][j] >= Len(b) /\ tr[n - 1][j] - j >= Len(a))
  <2>1. n - 2 \in 0..n - 2 /\ n - 2 \in 0..n - 1 /\ (n - 2) + 1 = n - 1 /\ (n - 1) - 1 = n - 2
    BY <1>7
  <2>2. Right(tr[(n - 2) + 1], n - 2) /\ NotEnded(b, a, tr[(n - 2) + 1], n - 2)
    BY <2>1, Reaches
  <2> QED
    BY <2>1, <2>2 DEF Right, NotEnded
<1> HIDE DEF w
<1>8. w >= Len(b) /\ w - k >= Len(a)
  BY <1>2 DEF w
<1>9. ~(w - k > Len(a))
  <2> SUFFICES ASSUME w - k > Len(a) PROVE FALSE
    OBVIOUS
  <2>1. n - 1 > 0 /\ k + 1 \in Diagonals((n - 1) - 1) /\ tr[n - 1][k + 1] >= w
    BY <1>6
  <2>2. tr[n - 1][k + 1] \in Int
        /\ ~(tr[n - 1][k + 1] >= Len(b) /\ tr[n - 1][k + 1] - (k + 1) >= Len(a))
    BY <1>7, <2>1
  <2> QED
    BY <1>1, <1>4, <1>8, <2>1, <2>2
<1>10. ~(w > Len(b))
  <2> SUFFICES ASSUME w > Len(b) PROVE FALSE
    OBVIOUS
  <2>1. n - 1 > 0 /\ k - 1 \in Diagonals((n - 1) - 1) /\ tr[n - 1][k - 1] >= w - 1
    BY <1>6
  <2>2. tr[n - 1][k - 1] \in Int
        /\ ~(tr[n - 1][k - 1] >= Len(b) /\ tr[n - 1][k - 1] - (k - 1) >= Len(a))
    BY <1>7, <2>1
  <2> QED
    BY <1>1, <1>4, <1>8, <2>1, <2>2
<1>11. w = Len(b) /\ k = Len(b) - Len(a)
  BY <1>1, <1>4, <1>8, <1>9, <1>10
<1> QED
  BY <1>2, <1>11 DEF w


\* Where the equal lines of a frontier end, the next ones differ.
LEMMA Stops ==
  ASSUME NEW b, NEW a, NEW tr, NEW n \in Nat, Frontiers(b, a, tr, n),
         NEW d \in 0..n - 1, NEW k \in Diagonals(d),
         tr[d + 1][k] < Len(b), tr[d + 1][k] - k < Len(a)
  PROVE  b[tr[d + 1][k] + 1] # a[(tr[d + 1][k] - k) + 1]
<1>1. CASE d = 0
  <2> DEFINE w == tr[1][0]
  <2>1. k = 0 /\ d + 1 = 1
    BY <1>1, DiagonalsAre
  <2>2. Furthers(b, a, 0, 0, w)
    BY DEF Frontiers
  <2>3. w < Len(b) /\ w - 0 < Len(a)
    BY <2>1
  <2> HIDE DEF w
  <2>4. w \in Int /\ 0 + (w - 0) = w /\ w - 0 = w
    BY <2>2 DEF Furthers
  <2>5. b[w + 1] # a[0 + (w - 0) + 1]
    BY <2>2, <2>3, <2>4 DEF Furthers
  <2> QED
    BY <2>1, <2>4, <2>5 DEF w
<1>2. CASE d > 0
  <2> DEFINE e == d - 1
             u == Comes(tr[d], d, k)
             w == tr[d + 1][k]
  <2>1. e \in Nat /\ e + 1 = d /\ e + 2 = d + 1 /\ e + 1 <= n - 1 /\ k \in Diagonals(e + 1)
    BY <1>2
  <2>2. /\ k \in Int /\ Comes(tr[e + 1], e + 1, k) \in Nat /\ tr[e + 2][k] \in Int
        /\ Furthers(b, a, Comes(tr[e + 1], e + 1, k), Comes(tr[e + 1], e + 1, k) - k, tr[e + 2][k])
    <3> HIDE DEF e
    <3> QED
      BY <2>1, Moves
  <2>3. k \in Int /\ u \in Nat /\ w \in Int /\ Furthers(b, a, u, u - k, w)
    BY <2>1, <2>2
  <2>4. w < Len(b) /\ w - k < Len(a)
    OBVIOUS
  <2> HIDE DEF u, w
  <2>5. (u - k) + (w - u) = w - k
    BY <2>3
  <2>6. b[w + 1] # a[(u - k) + (w - u) + 1]
    BY <2>3, <2>4, <2>5 DEF Furthers
  <2> QED
    BY <2>5, <2>6 DEF w
<1> QED
  BY <1>1, <1>2

\* One step of the way back: equal lines down to a corner, and one edit from
\* there to the point of the frontier before.
LEMMA BackIs ==
  ASSUME before \in LineSeq, after \in LineSeq,
         NEW n \in Nat, Frontiers(before, after, trace, n),
         distance \in 1..n - 1, x \in 0..Len(before), y \in 0..Len(after),
         x - y \in Diagonals(distance), trace[distance + 1][x - y] = x
  PROVE  LET u == Corner[1]
             v == Corner[2]
         IN /\ u \in Nat /\ v \in Nat /\ u <= x /\ v <= y /\ x - u = y - v
            /\ \A i \in 1..x - u : before[u + i] = after[v + i]
            /\ u = From[1] => /\ v >= 1
                              /\ u - (v - 1) \in Diagonals(distance - 1)
                              /\ trace[distance][u - (v - 1)] = u
            /\ u # From[1] => /\ u >= 1
                              /\ (u - 1) - v \in Diagonals(distance - 1)
                              /\ trace[distance][(u - 1) - v] = u - 1
<1> DEFINE e == distance - 1
           k == x - y
           o == Origin(Previous, distance, k)
           u == Comes(trace[distance], distance, k)
           p == trace[distance][o]
<1>1. Len(before) \in Nat /\ Len(after) \in Nat /\ x \in Nat /\ y \in Nat /\ k \in Int
  <2>1. Len(before) \in Nat /\ Len(after) \in Nat
    BY LenProperties DEF LineSeq
  <2> QED
    BY <2>1
<1>2. e \in Nat /\ e + 1 = distance /\ e + 2 = distance + 1 /\ e + 1 <= n - 1 /\ k \in Diagonals(e + 1)
  OBVIOUS
<1>3. /\ u \in Nat /\ u - k \in Nat /\ Furthers(before, after, u, u - k, x)
      /\ \/ o = k + 1 /\ k + 1 \in Diagonals(e) /\ u = trace[distance][k + 1]
         \/ o = k - 1 /\ k - 1 \in Diagonals(e) /\ u = trace[distance][k - 1] + 1
  <2> HIDE DEF e
  <2>1. /\ Comes(trace[e + 1], e + 1, k) \in Nat /\ Comes(trace[e + 1], e + 1, k) - k \in Nat
        /\ Furthers(before, after, Comes(trace[e + 1], e + 1, k), Comes(trace[e + 1], e + 1, k) - k, trace[e + 2][k])
        /\ \/ Origin(trace[e + 1], e + 1, k) = k + 1 /\ k + 1 \in Diagonals(e)
              /\ Comes(trace[e + 1], e + 1, k) = trace[e + 1][k + 1]
           \/ Origin(trace[e + 1], e + 1, k) = k - 1 /\ k - 1 \in Diagonals(e)
              /\ Comes(trace[e + 1], e + 1, k) = trace[e + 1][k - 1] + 1
    <3> HIDE DEF k
    <3> QED
      BY SMTT(30), <1>2, Moves
  <2> QED
    BY <1>2, <2>1 DEF Previous
<1>4. p \in Nat /\ p - o \in Nat /\ o \in Int
  <2>1. e \in 0..n - 1 /\ Right(trace[e + 1], e)
    BY <1>2, Reaches
  <2>2. o \in Diagonals(e)
    BY <1>3
  <2>3. o \in Int
    BY <1>2, <2>2, DiagonalsAre
  <2> HIDE DEF o, k, e
  <2>4. p \in Nat /\ p >= o
    BY <1>2, <2>1, <2>2 DEF Right
  <2> QED
    BY <2>3, <2>4
<1>5. From = <<p, p - o>>
  BY DEF From, Previous
<1> HIDE DEF u, p, o
<1>6. u <= x /\ \A i \in 1..x - u : before[u + i] = after[(u - k) + i]
  BY <1>3 DEF Furthers
<1>7. (u = p /\ o = k + 1) \/ (u = p + 1 /\ o = k - 1)
  <2> HIDE DEF k, e
  <2> QED
    BY <1>3 DEF p
<1>8. Max({0, Min({x - From[1], y - From[2]})}) = x - u
  <2> DEFINE i == x - p
             j == y - (p - o)
  <2>1. i \in Int /\ j \in Int /\ ((i = x - u /\ j = i + 1) \/ (j = x - u /\ i = j + 1)) /\ x - u >= 0 /\ x - u \in Int
    BY <1>1, <1>3, <1>4, <1>6, <1>7
  <2>2. Min({i, j}) = x - u
    <3> HIDE DEF i, j
    <3> QED
      BY <2>1, LesserOfTwo
  <2>3. Max({0, x - u}) = x - u
    BY <2>1, GreaterOfTwo
  <2> QED
    BY <1>5, <2>2, <2>3
<1>9. Corner = <<x - (x - u), y - (x - u)>>
  BY <1>8 DEF Corner
<1>10. x - (x - u) = u /\ y - (x - u) = u - k
  BY <1>1, <1>3
<1>11. Corner = <<u, u - k>>
  BY <1>9, <1>10
<1>12. u - k <= y /\ x - u = y - (u - k)
  BY <1>1, <1>3, <1>6
<1>13. CASE u = p /\ o = k + 1
  <2>1. u - k >= 1 /\ u - ((u - k) - 1) = k + 1
    <3>1. u \in Nat /\ k \in Int /\ p - o \in Nat /\ u = p /\ o = k + 1
      BY <1>1, <1>3, <1>4, <1>13
    <3> HIDE DEF k, e
    <3> QED
      BY ONLY <3>1
  <2>2. k + 1 \in Diagonals(e) /\ trace[distance][k + 1] = u
    BY <1>1, <1>3, <1>13 DEF p
  <2> HIDE DEF k
  <2> QED
    BY <1>3, <1>5, <1>6, <1>11, <1>12, <1>13, <2>1, <2>2
<1>14. CASE u = p + 1 /\ o = k - 1
  <2>1. u >= 1 /\ (u - 1) - (u - k) = k - 1 /\ u # p /\ u - 1 = p
    <3>1. u \in Nat /\ k \in Int /\ p \in Nat /\ u = p + 1 /\ o = k - 1
      BY <1>1, <1>3, <1>4, <1>14
    <3> HIDE DEF k, e
    <3> QED
      BY ONLY <3>1
  <2>2. p \in Nat
    BY <1>3, <1>4, <1>14, <2>1
  <2>3. k - 1 \in Diagonals(e) /\ trace[distance][k - 1] = p
    BY <1>1, <1>3, <1>14 DEF p
  <2> HIDE DEF k
  <2> QED
    BY <1>3, <1>5, <1>6, <1>11, <1>12, <1>14, <2>1, <2>2, <2>3
<1> QED
  BY <1>7, <1>13, <1>14

-----------------------------------------------------------------------------
(* The edit distance.                                                      *)

\* The recurrence of EditDistance.
Cell(b, a, D, i, j) ==
  IF i = 0 \/ j = 0 THEN i + j
  ELSE IF b[i] = a[j] THEN D[<<i - 1, j - 1>>]
  ELSE 1 + Min({D[<<i - 1, j>>], D[<<i, j - 1>>]})

Cells(b, a) == (0..Len(b)) \X (0..Len(a))

IsDistance(b, a, D) ==
  D \in [Cells(b, a) -> Nat] /\ \A i \in 0..Len(b), j \in 0..Len(a) : D[<<i, j>>] = Cell(b, a, D, i, j)

\* What a cell looks at.
LEMMA CellsAround ==
  ASSUME NEW b \in LineSeq, NEW a \in LineSeq, NEW i \in 0..Len(b), NEW j \in 0..Len(a)
  PROVE  /\ Len(b) \in Nat /\ Len(a) \in Nat /\ i \in Nat /\ j \in Nat
         /\ i # 0 => i - 1 \in 0..Len(b) /\ <<i - 1, j>> \in Cells(b, a)
         /\ j # 0 => j - 1 \in 0..Len(a) /\ <<i, j - 1>> \in Cells(b, a)
         /\ i # 0 /\ j # 0 => <<i - 1, j - 1>> \in Cells(b, a)
         /\ <<i, j>> \in Cells(b, a)
<1>1. Len(b) \in Nat /\ Len(a) \in Nat
  BY LenProperties DEF LineSeq
<1>2. i # 0 => i - 1 \in 0..Len(b)
  BY <1>1
<1>3. j # 0 => j - 1 \in 0..Len(a)
  BY <1>1
<1> QED
  BY <1>1, <1>2, <1>3 DEF Cells

LEMMA CellIsNatural ==
  ASSUME NEW b \in LineSeq, NEW a \in LineSeq, NEW g \in [Cells(b, a) -> Nat],
         NEW i \in 0..Len(b), NEW j \in 0..Len(a)
  PROVE  Cell(b, a, g, i, j) \in Nat
<1>1. CASE i = 0 \/ j = 0
  BY <1>1, CellsAround DEF Cell
<1>2. CASE i # 0 /\ j # 0
  <2>1. g[<<i - 1, j>>] \in Nat /\ g[<<i, j - 1>>] \in Nat /\ g[<<i - 1, j - 1>>] \in Nat
    BY <1>2, CellsAround
  <2>2. Min({g[<<i - 1, j>>], g[<<i, j - 1>>]}) \in Nat
    <3> DEFINE k == g[<<i - 1, j>>]
               l == g[<<i, j - 1>>]
    <3>1. k \in Int /\ l \in Int /\ k \in Nat /\ l \in Nat
      BY <2>1
    <3> HIDE DEF k, l
    <3>2. Min({k, l}) \in Nat
      BY <3>1, LesserOfTwo
    <3> QED
      BY <3>2 DEF k, l
  <2> QED
    BY <1>2, <2>1, <2>2 DEF Cell
<1> QED
  BY <1>1, <1>2

AgreeBelow(b, a, g, h, n) ==
  \A k \in 0..Len(b), l \in 0..Len(a) : k + l < n => h[<<k, l>>] = g[<<k, l>>]

LEMMA SameCell ==
  ASSUME NEW b \in LineSeq, NEW a \in LineSeq, NEW g, NEW h, NEW i \in 0..Len(b), NEW j \in 0..Len(a),
         AgreeBelow(b, a, g, h, i + j)
  PROVE  Cell(b, a, h, i, j) = Cell(b, a, g, i, j)
<1>1. /\ i \in Nat /\ j \in Nat
      /\ i # 0 => i - 1 \in 0..Len(b)
      /\ j # 0 => j - 1 \in 0..Len(a)
  BY CellsAround
<1>2. CASE i = 0 \/ j = 0
  BY <1>2 DEF Cell
<1>3. CASE i # 0 /\ j # 0
  <2>1. (i - 1) + j < i + j /\ i + (j - 1) < i + j /\ (i - 1) + (j - 1) < i + j
    BY <1>1
  <2>2. /\ h[<<i - 1, j>>] = g[<<i - 1, j>>]
        /\ h[<<i, j - 1>>] = g[<<i, j - 1>>]
        /\ h[<<i - 1, j - 1>>] = g[<<i - 1, j - 1>>]
    BY <1>1, <1>3, <2>1 DEF AgreeBelow
  <2> QED
    BY <2>2 DEF Cell
<1> QED
  BY <1>2, <1>3

LEMMA DistanceIs ==
  ASSUME NEW b \in LineSeq, NEW a \in LineSeq
  PROVE  \E D : IsDistance(b, a, D) /\ EditDistance(b, a) = D[<<Len(b), Len(a)>>]
<1> DEFINE P == Cells(b, a)
           N == Len(b) + Len(a)
           Goes(g, s) == g \in [P -> Nat]
                         /\ \A i \in 0..Len(b), j \in 0..Len(a) : i + j <= s => g[<<i, j>>] = Cell(b, a, g, i, j)
           S == {s \in 0..N : \E g : Goes(g, s)}
<1>0. Len(b) \in Nat /\ Len(a) \in Nat /\ N \in Nat
  BY LenProperties DEF LineSeq
<1>1. 0 \in S
  <2> DEFINE g == [c \in P |-> 0]
  <2>1. g \in [P -> Nat]
    OBVIOUS
  <2>2. ASSUME NEW i \in 0..Len(b), NEW j \in 0..Len(a), i + j <= 0
        PROVE  g[<<i, j>>] = Cell(b, a, g, i, j)
    <3>1. i = 0 /\ j = 0 /\ <<i, j>> \in P
      <4>1. i \in Nat /\ j \in Nat /\ <<i, j>> \in P
        BY CellsAround
      <4> HIDE DEF P, g
      <4> QED
        BY ONLY <2>2, <4>1
    <3> QED
      BY <3>1 DEF Cell
  <2>3. Goes(g, 0)
    <3> HIDE DEF g
    <3> QED
      BY <2>1, <2>2
  <2> QED
    BY <1>0, <2>3
<1>2. ASSUME NEW s \in 0..N - 1, s \in S PROVE s + 1 \in S
  <2>1. PICK g : Goes(g, s)
    BY <1>2
  <2> DEFINE h == [c \in P |-> IF c[1] + c[2] = s + 1 THEN Cell(b, a, g, c[1], c[2]) ELSE g[c]]
  <2>2. ASSUME NEW i \in 0..Len(b), NEW j \in 0..Len(a)
        PROVE  h[<<i, j>>] = IF i + j = s + 1 THEN Cell(b, a, g, i, j) ELSE g[<<i, j>>]
    <3>1. <<i, j>> \in P
      BY CellsAround
    <3> QED
      BY <3>1
  <2>3. h \in [P -> Nat]
    <3> SUFFICES ASSUME NEW c \in P PROVE h[c] \in Nat
      OBVIOUS
    <3>1. c[1] \in 0..Len(b) /\ c[2] \in 0..Len(a) /\ c = <<c[1], c[2]>>
      BY DEF Cells
    <3>2. h[c] = IF c[1] + c[2] = s + 1 THEN Cell(b, a, g, c[1], c[2]) ELSE g[c]
      OBVIOUS
    <3>3. g \in [P -> Nat]
      BY <2>1
    <3>4. Cell(b, a, g, c[1], c[2]) \in Nat
      BY <3>1, <3>3, CellIsNatural
    <3>5. g[c] \in Nat
      BY <3>3
    <3> HIDE DEF h
    <3> QED
      BY <3>2, <3>4, <3>5
  <2>4. ASSUME NEW i \in 0..Len(b), NEW j \in 0..Len(a), i + j <= s + 1
        PROVE  Cell(b, a, h, i, j) = Cell(b, a, g, i, j)
    <3>1. ASSUME NEW k \in 0..Len(b), NEW l \in 0..Len(a), k + l < i + j
          PROVE  h[<<k, l>>] = g[<<k, l>>]
      <4>1. k + l # s + 1
        BY <1>0, <2>4, <3>1
      <4> HIDE DEF h
      <4> QED
        BY <2>2, <4>1
    <3>2. AgreeBelow(b, a, g, h, i + j)
      BY <3>1 DEF AgreeBelow
    <3> HIDE DEF h
    <3> QED
      BY <3>2, SameCell
  <2>5. ASSUME NEW i \in 0..Len(b), NEW j \in 0..Len(a), i + j <= s + 1
        PROVE  h[<<i, j>>] = Cell(b, a, h, i, j)
    <3>1. Cell(b, a, h, i, j) = Cell(b, a, g, i, j)
      BY <2>4, <2>5
    <3>2. i + j = s + 1 \/ i + j <= s
      BY <1>0, <2>5
    <3>3. i + j <= s => g[<<i, j>>] = Cell(b, a, g, i, j)
      BY <2>1
    <3>4. i + j <= s => i + j # s + 1
      BY <1>0
    <3> HIDE DEF h
    <3> QED
      BY <2>2, <3>1, <3>2, <3>3, <3>4
  <2>6. Goes(h, s + 1)
    <3> HIDE DEF h
    <3> QED
      BY <2>3, <2>5
  <2>7. s + 1 \in 0..N
    BY <1>0
  <2> HIDE DEF Goes, h
  <2> QED
    BY <2>6, <2>7
<1>3. N \in S
  <2> HIDE DEF S
  <2>1. 0 \in Nat
    OBVIOUS
  <2>2. \A s \in 0..N : s \in S
    <3> HIDE DEF N
    <3> QED
      BY ONLY <1>0, <1>1, <1>2, <2>1, Upwards
  <2> QED
    BY <1>0, <2>2
<1>4. PICK g : Goes(g, N)
  <2> HIDE DEF Goes
  <2> QED
    BY <1>3
<1> DEFINE F(D) == [c \in P |-> Cell(b, a, D, c[1], c[2])]
           E == CHOOSE D : D = F(D)
<1>5. g = F(g)
  <2>1. ASSUME NEW c \in P PROVE g[c] = Cell(b, a, g, c[1], c[2])
    <3>1. c[1] \in 0..Len(b) /\ c[2] \in 0..Len(a) /\ c = <<c[1], c[2]>>
      BY DEF Cells
    <3>2. c[1] + c[2] <= N
      BY <1>0, <3>1
    <3>3. g[<<c[1], c[2]>>] = Cell(b, a, g, c[1], c[2])
      BY <1>4, <3>1, <3>2
    <3> QED
      BY <3>1, <3>3
  <2>2. g \in [P -> Nat]
    BY <1>4
  <2> QED
    BY <2>1, <2>2
<1>6. E = F(E)
  BY <1>5
<1>7. EditDistance(b, a) = E[<<Len(b), Len(a)>>]
  BY DEF EditDistance, Cell, Cells
<1> HIDE DEF E, N
<1> DEFINE T == {s \in 0..N : \A i \in 0..Len(b), j \in 0..Len(a) : i + j <= s => E[<<i, j>>] = g[<<i, j>>]}
<1>8. \A i \in 0..Len(b), j \in 0..Len(a) : E[<<i, j>>] = Cell(b, a, E, i, j)
  BY <1>6, CellsAround
<1>9. ASSUME NEW i \in 0..Len(b), NEW j \in 0..Len(a),
             AgreeBelow(b, a, g, E, i + j)
      PROVE  E[<<i, j>>] = g[<<i, j>>]
  <2>1. Cell(b, a, E, i, j) = Cell(b, a, g, i, j)
    BY SMTT(30), <1>9, SameCell
  <2>2. i + j <= N
    BY <1>0 DEF N
  <2> QED
    BY <1>4, <1>8, <2>1, <2>2
<1>10. 0 \in T
  <2>1. ASSUME NEW i \in 0..Len(b), NEW j \in 0..Len(a), i + j <= 0 PROVE E[<<i, j>>] = g[<<i, j>>]
    <3>1. ASSUME NEW k \in 0..Len(b), NEW l \in 0..Len(a) PROVE ~(k + l < i + j)
      BY <1>0, <2>1
    <3>2. AgreeBelow(b, a, g, E, i + j)
      BY <3>1 DEF AgreeBelow
    <3> QED
      BY <1>9, <3>2
  <2> QED
    BY <1>0, <2>1
<1>11. ASSUME NEW s \in 0..N - 1, s \in T PROVE s + 1 \in T
  <2>1. ASSUME NEW i \in 0..Len(b), NEW j \in 0..Len(a), i + j <= s + 1 PROVE E[<<i, j>>] = g[<<i, j>>]
    <3>1. ASSUME NEW k \in 0..Len(b), NEW l \in 0..Len(a), k + l < i + j
          PROVE  E[<<k, l>>] = g[<<k, l>>]
      <4>1. k + l <= s
        BY <1>0, <2>1, <3>1
      <4> QED
        BY <1>11, <4>1
    <3>2. AgreeBelow(b, a, g, E, i + j)
      BY <3>1 DEF AgreeBelow
    <3> QED
      BY <1>9, <3>2
  <2>2. s + 1 \in 0..N
    BY <1>0
  <2> QED
    BY <2>1, <2>2
<1>12. N \in T
  <2> HIDE DEF T
  <2>1. 0 \in Nat
    OBVIOUS
  <2>2. \A s \in 0..N : s \in T
    BY ONLY <1>0, <1>10, <1>11, <2>1, Upwards
  <2> QED
    BY <1>0, <2>2
<1>13. E[<<Len(b), Len(a)>>] = g[<<Len(b), Len(a)>>]
  BY <1>0, <1>12 DEF N
<1>14. IsDistance(b, a, g)
  <2>1. ASSUME NEW i \in 0..Len(b), NEW j \in 0..Len(a) PROVE g[<<i, j>>] = Cell(b, a, g, i, j)
    <3>1. i + j <= N
      BY <1>0 DEF N
    <3> QED
      BY <1>4, <3>1
  <2>2. g \in [P -> Nat]
    BY <1>4
  <2> QED
    BY <2>1, <2>2 DEF IsDistance
<1> QED
  BY <1>7, <1>13, <1>14

Close(m, n) == m <= n + 1 /\ n <= m + 1

CloseUpTo(b, a, D, n) ==
  \A i \in 0..Len(b), j \in 0..Len(a) :
    i + j <= n => /\ i # 0 => Close(D[<<i, j>>], D[<<i - 1, j>>])
                  /\ j # 0 => Close(D[<<i, j>>], D[<<i, j - 1>>])

LEMMA CloseNext ==
  ASSUME NEW b \in LineSeq, NEW a \in LineSeq, NEW D, IsDistance(b, a, D),
         NEW n \in Nat, CloseUpTo(b, a, D, n)
  PROVE  CloseUpTo(b, a, D, n + 1)
<1> SUFFICES ASSUME NEW i \in 0..Len(b), NEW j \in 0..Len(a), i + j <= n + 1
             PROVE  /\ i # 0 => Close(D[<<i, j>>], D[<<i - 1, j>>])
                    /\ j # 0 => Close(D[<<i, j>>], D[<<i, j - 1>>])
  BY DEF CloseUpTo
<1>0. i + j <= n + 1
  OBVIOUS
<1>1. /\ i \in Nat /\ j \in Nat /\ <<i, j>> \in Cells(b, a)
      /\ i # 0 => i - 1 \in 0..Len(b) /\ <<i - 1, j>> \in Cells(b, a)
      /\ j # 0 => j - 1 \in 0..Len(a) /\ <<i, j - 1>> \in Cells(b, a)
      /\ i # 0 /\ j # 0 => <<i - 1, j - 1>> \in Cells(b, a)
  BY CellsAround
<1>2. ASSUME NEW k \in 0..Len(b), NEW l \in 0..Len(a) PROVE D[<<k, l>>] = Cell(b, a, D, k, l)
  BY DEF IsDistance
<1>3. ASSUME NEW c \in Cells(b, a) PROVE D[c] \in Nat
  BY DEF IsDistance
<1>4. CASE j = 0
  <2>1. D[<<i, j>>] = i + j
    BY <1>2, <1>4 DEF Cell
  <2>2. i # 0 => D[<<i - 1, j>>] = (i - 1) + j
    BY <1>1, <1>2, <1>4 DEF Cell
  <2> QED
    BY <1>1, <1>4, <2>1, <2>2 DEF Close
<1>5. CASE i = 0
  <2>1. D[<<i, j>>] = i + j
    BY <1>2, <1>5 DEF Cell
  <2>2. j # 0 => D[<<i, j - 1>>] = i + (j - 1)
    BY <1>1, <1>2, <1>5 DEF Cell
  <2> QED
    BY <1>1, <1>5, <2>1, <2>2 DEF Close
<1>6. CASE i # 0 /\ j # 0
  <2> DEFINE c == D[<<i, j>>]
             l == D[<<i - 1, j>>]
             u == D[<<i, j - 1>>]
             o == D[<<i - 1, j - 1>>]
  <2>1. c \in Nat /\ l \in Nat /\ u \in Nat /\ o \in Nat
    BY <1>1, <1>3, <1>6
  <2>2. Close(l, o)
    <3>1. (i - 1) + j <= n
      BY <1>0, <1>1
    <3> QED
      BY <1>1, <1>6, <3>1 DEF CloseUpTo
  <2>3. Close(u, o)
    <3>1. i + (j - 1) <= n
      BY <1>0, <1>1
    <3> QED
      BY <1>1, <1>6, <3>1 DEF CloseUpTo
  <2>4. c = o \/ c = 1 + Min({l, u})
    BY <1>2, <1>6 DEF Cell
  <2> HIDE DEF c, l, u, o
  <2>5. Min({l, u}) = IF l <= u THEN l ELSE u
    BY <2>1, LesserOfTwo
  <2>6. Close(c, l) /\ Close(c, u)
    BY <2>1, <2>2, <2>3, <2>4, <2>5 DEF Close
  <2> QED
    BY <2>6 DEF c, l, u
<1> QED
  BY <1>4, <1>5, <1>6

\* One more line on either side costs at most one edit, and nothing when it is
\* the same line on both.
Grows(b, a, D, i, j) ==
  /\ D[<<i, j>>] \in Nat
  /\ i < Len(b) => D[<<i + 1, j>>] \in Nat /\ D[<<i + 1, j>>] <= D[<<i, j>>] + 1
  /\ j < Len(a) => D[<<i, j + 1>>] \in Nat /\ D[<<i, j + 1>>] <= D[<<i, j>>] + 1
  /\ i < Len(b) /\ j < Len(a) /\ b[i + 1] = a[j + 1] => D[<<i + 1, j + 1>>] = D[<<i, j>>]

LEMMA CellGrows ==
  ASSUME NEW b \in LineSeq, NEW a \in LineSeq, NEW D, IsDistance(b, a, D),
         NEW i \in 0..Len(b), NEW j \in 0..Len(a)
  PROVE  Grows(b, a, D, i, j)
<1>0. Len(b) \in Nat /\ Len(a) \in Nat /\ i \in Nat /\ j \in Nat
  BY CellsAround
<1> DEFINE N == Len(b) + Len(a)
           S == {n \in 0..N : CloseUpTo(b, a, D, n)}
<1>1. 0 \in S
  <2>1. CloseUpTo(b, a, D, 0)
    <3> SUFFICES ASSUME NEW k \in 0..Len(b), NEW l \in 0..Len(a), k + l <= 0
                 PROVE  k = 0 /\ l = 0
      BY DEF CloseUpTo
    <3> QED
      BY <1>0
  <2> QED
    BY <1>0, <2>1
<1>2. ASSUME NEW n \in 0..N - 1, n \in S PROVE n + 1 \in S
  <2>1. n \in Nat /\ n + 1 \in 0..N
    BY <1>0
  <2>2. CloseUpTo(b, a, D, n + 1)
    BY <1>2, <2>1, CloseNext
  <2> QED
    BY <2>1, <2>2
<1>3. CloseUpTo(b, a, D, N)
  <2> HIDE DEF S
  <2>1. 0 \in Nat /\ N \in Nat
    BY <1>0
  <2>2. \A n \in 0..N : n \in S
    <3> HIDE DEF N
    <3> QED
      BY ONLY <1>1, <1>2, <2>1, Upwards
  <2> QED
    BY <2>1, <2>2 DEF S
<1> HIDE DEF S
<1>4. ASSUME NEW k \in 0..Len(b), NEW l \in 0..Len(a)
      PROVE  /\ D[<<k, l>>] \in Nat /\ D[<<k, l>>] = Cell(b, a, D, k, l)
             /\ k # 0 => Close(D[<<k, l>>], D[<<k - 1, l>>])
             /\ l # 0 => Close(D[<<k, l>>], D[<<k, l - 1>>])
  <2>1. <<k, l>> \in Cells(b, a) /\ k + l <= N
    BY <1>0 DEF Cells
  <2> HIDE DEF N
  <2> QED
    BY <1>3, <2>1 DEF CloseUpTo, IsDistance
<1>5. ASSUME i < Len(b) PROVE D[<<i + 1, j>>] \in Nat /\ D[<<i + 1, j>>] <= D[<<i, j>>] + 1
  <2>1. i + 1 \in 0..Len(b) /\ i + 1 # 0 /\ (i + 1) - 1 = i
    BY <1>0, <1>5
  <2> QED
    BY <1>4, <2>1 DEF Close
<1>6. ASSUME j < Len(a) PROVE D[<<i, j + 1>>] \in Nat /\ D[<<i, j + 1>>] <= D[<<i, j>>] + 1
  <2>1. j + 1 \in 0..Len(a) /\ j + 1 # 0 /\ (j + 1) - 1 = j
    BY <1>0, <1>6
  <2> QED
    BY <1>4, <2>1 DEF Close
<1>7. ASSUME i < Len(b), j < Len(a), b[i + 1] = a[j + 1] PROVE D[<<i + 1, j + 1>>] = D[<<i, j>>]
  <2>1. i + 1 \in 0..Len(b) /\ i + 1 # 0 /\ (i + 1) - 1 = i
    BY <1>0, <1>7
  <2>2. j + 1 \in 0..Len(a) /\ j + 1 # 0 /\ (j + 1) - 1 = j
    BY <1>0, <1>7
  <2>3. D[<<i + 1, j + 1>>] = Cell(b, a, D, i + 1, j + 1)
    BY <1>4, <2>1, <2>2
  <2>4. Cell(b, a, D, i + 1, j + 1) = D[<<(i + 1) - 1, (j + 1) - 1>>]
    BY <1>7, <2>1, <2>2 DEF Cell
  <2> QED
    BY <2>1, <2>2, <2>3, <2>4
<1> QED
  BY <1>4, <1>5, <1>6, <1>7 DEF Grows

LEMMA DistanceGrows ==
  ASSUME NEW b \in LineSeq, NEW a \in LineSeq, NEW D, IsDistance(b, a, D),
         NEW i \in 0..Len(b), NEW j \in 0..Len(a)
  PROVE  /\ D[<<i, j>>] \in Nat
         /\ i < Len(b) => D[<<i + 1, j>>] \in Nat /\ D[<<i + 1, j>>] <= D[<<i, j>>] + 1
         /\ j < Len(a) => D[<<i, j + 1>>] \in Nat /\ D[<<i, j + 1>>] <= D[<<i, j>>] + 1
         /\ i < Len(b) /\ j < Len(a) /\ b[i + 1] = a[j + 1] => D[<<i + 1, j + 1>>] = D[<<i, j>>]
<1>1. Grows(b, a, D, i, j)
  BY CellGrows
<1> QED
  BY <1>1 DEF Grows

LEMMA EqualLineIsFree ==
  ASSUME NEW b \in LineSeq, NEW a \in LineSeq, NEW D, IsDistance(b, a, D),
         NEW i \in 0..Len(b), NEW j \in 0..Len(a), i < Len(b), j < Len(a), b[i + 1] = a[j + 1]
  PROVE  D[<<i + 1, j + 1>>] = D[<<i, j>>]
<1>1. Grows(b, a, D, i, j)
  BY CellGrows
<1> QED
  BY <1>1 DEF Grows

SameLines(b, a, u, v, s) == \A i \in 1..s : b[u + i] = a[v + i]

LEMMA EqualLinesAreFree ==
  ASSUME NEW b \in LineSeq, NEW a \in LineSeq, NEW D, IsDistance(b, a, D),
         NEW u \in Nat, NEW v \in Nat, NEW s \in Nat, u + s <= Len(b), v + s <= Len(a),
         SameLines(b, a, u, v, s)
  PROVE  D[<<u + s, v + s>>] = D[<<u, v>>]
<1> DEFINE S == {i \in 0..s : D[<<u + i, v + i>>] = D[<<u, v>>]}
<1>0. Len(b) \in Nat /\ Len(a) \in Nat
  BY LenProperties DEF LineSeq
<1>1. 0 \in S
  <2>1. u + 0 = u /\ v + 0 = v /\ 0 \in 0..s
    OBVIOUS
  <2> QED
    BY <2>1
<1>2. ASSUME NEW i \in 0..s - 1, i \in S PROVE i + 1 \in S
  <2>1. u + i \in 0..Len(b) /\ v + i \in 0..Len(a) /\ u + i < Len(b) /\ v + i < Len(a)
    BY <1>0
  <2>2. u + (i + 1) = (u + i) + 1 /\ v + (i + 1) = (v + i) + 1 /\ i + 1 \in 1..s /\ i + 1 \in 0..s
    BY <1>0
  <2>3. b[(u + i) + 1] = a[(v + i) + 1]
    BY <2>2 DEF SameLines
  <2>4. D[<<(u + i) + 1, (v + i) + 1>>] = D[<<u + i, v + i>>]
    <3> DEFINE l == u + i
               m == v + i
    <3>1. /\ l \in 0..Len(b) /\ m \in 0..Len(a) /\ l < Len(b) /\ m < Len(a)
          /\ b[l + 1] = a[m + 1]
      BY <2>1, <2>3
    <3> HIDE DEF l, m
    <3>2. D[<<l + 1, m + 1>>] = D[<<l, m>>]
      <4>1. ASSUME NEW i1 \in 0..Len(b), NEW j1 \in 0..Len(a),
                   i1 < Len(b), j1 < Len(a), b[i1 + 1] = a[j1 + 1]
            PROVE  D[<<i1 + 1, j1 + 1>>] = D[<<i1, j1>>]
        BY <4>1, EqualLineIsFree
      <4> QED
        BY <3>1, <4>1
    <3> QED
      BY <3>2 DEF l, m
  <2> QED
    BY <1>2, <2>2, <2>4
<1>3. 0 \in Nat
  OBVIOUS
<1>4. \A i \in 0..s : i \in S
  <2> HIDE DEF S
  <2> QED
    BY ONLY <1>1, <1>2, <1>3, s \in Nat, Upwards
<1>5. s \in S
  <2> HIDE DEF S
  <2> QED
    BY <1>4
<1> QED
  BY <1>5

LEMMA DiagonalsEnd == ASSUME NEW d \in Nat PROVE -d \in Diagonals(d) /\ d \in Diagonals(d)
BY SMT DEF Diagonals

\* What a distance reaches inside the texts is that near.
Cheap(b, a, D, f, d) ==
  \A k \in Diagonals(d) : f[k] <= Len(b) /\ f[k] - k <= Len(a) => D[<<f[k], f[k] - k>>] <= d

LEMMA CheapNext ==
  ASSUME NEW b \in LineSeq, NEW a \in LineSeq, NEW D, IsDistance(b, a, D),
         NEW tr, NEW n \in Nat, Frontiers(b, a, tr, n),
         NEW d \in Nat, d + 1 <= n - 1, Cheap(b, a, D, tr[d + 1], d)
  PROVE  Cheap(b, a, D, tr[d + 2], d + 1)
<1> SUFFICES ASSUME NEW k \in Diagonals(d + 1), tr[d + 2][k] <= Len(b), tr[d + 2][k] - k <= Len(a)
             PROVE  D[<<tr[d + 2][k], tr[d + 2][k] - k>>] <= d + 1
  BY DEF Cheap
<1> DEFINE f == tr[d + 1]
           u == Comes(f, d + 1, k)
           w == tr[d + 2][k]
           v == u - k
<1>1. Len(b) \in Nat /\ Len(a) \in Nat
  BY LenProperties DEF LineSeq
<1>2. /\ k \in Int /\ u \in Nat /\ u - k \in Nat /\ w \in Int /\ Furthers(b, a, u, u - k, w)
      /\ \/ k + 1 \in Diagonals(d) /\ u = f[k + 1]
         \/ k - 1 \in Diagonals(d) /\ u = f[k - 1] + 1
  BY Moves
<1>3. Right(f, d)
  <2>1. d \in 0..n - 1
    OBVIOUS
  <2> QED
    BY <2>1, Reaches
<1>4. w <= Len(b) /\ w - k <= Len(a)
  OBVIOUS
<1> HIDE DEF u, w
<1>5. u <= w /\ \A i \in 1..w - u : b[u + i] = a[v + i]
  BY <1>2 DEF Furthers
<1>6. u \in 0..Len(b) /\ v \in 0..Len(a) /\ v \in Nat
  BY SMTT(30), <1>1, <1>2, <1>4, <1>5
<1>7. D[<<u, v>>] \in Nat /\ D[<<u, v>>] <= d + 1
  <2>1. D[<<u, v>>] \in Nat
    BY <1>6, DistanceGrows
  <2>2. CASE k + 1 \in Diagonals(d) /\ u = f[k + 1]
    <3> DEFINE q == u - (k + 1)
    <3>1. f[k + 1] >= k + 1
      BY <1>3, <2>2 DEF Right
    <3>2. q \in 0..Len(a) /\ q < Len(a) /\ q + 1 = v
      <4> HIDE DEF f
      <4> QED
        BY SMTT(30), <1>1, <1>2, <1>6, <2>2, <3>1
    <3>3. D[<<u, q>>] <= d
      <4>1. f[k + 1] <= Len(b) /\ f[k + 1] - (k + 1) <= Len(a)
        BY <1>1, <1>6, <2>2, <3>2
      <4>2. D[<<f[k + 1], f[k + 1] - (k + 1)>>] <= d
        BY <2>2, <4>1 DEF Cheap
      <4> QED
        BY <2>2, <4>2
    <3> HIDE DEF q, v, f
    <3>4. D[<<u, q>>] \in Nat /\ D[<<u, q + 1>>] <= D[<<u, q>>] + 1
      BY <1>6, <3>2, DistanceGrows
    <3>5. D[<<u, v>>] <= D[<<u, q>>] + 1
      BY <3>2, <3>4
    <3> QED
      BY <2>1, <3>3, <3>4, <3>5
  <2>3. CASE k - 1 \in Diagonals(d) /\ u = f[k - 1] + 1
    <3> DEFINE p == f[k - 1]
    <3>1. p >= 0 /\ p \in Int
      BY <1>3, <2>3 DEF Right
    <3>2. p \in 0..Len(b) /\ p < Len(b) /\ p + 1 = u /\ p - (k - 1) = v
      <4> HIDE DEF p
      <4>1. u = p + 1
        BY <2>3 DEF p
      <4> QED
        BY <1>1, <1>2, <1>6, <3>1, <4>1
    <3>3. D[<<p, v>>] <= d
      <4>1. p <= Len(b) /\ p - (k - 1) <= Len(a)
        <5> HIDE DEF v, p
        <5> QED
          BY <1>1, <1>6, <3>2
      <4>2. D[<<p, p - (k - 1)>>] <= d
        BY <2>3, <4>1 DEF Cheap
      <4> HIDE DEF v, p
      <4> QED
        BY <3>2, <4>2
    <3> HIDE DEF p, v, f
    <3>4. D[<<p, v>>] \in Nat /\ D[<<p + 1, v>>] <= D[<<p, v>>] + 1
      BY <1>6, <3>2, DistanceGrows
    <3> QED
      BY SMTT(30), <2>1, <3>2, <3>3, <3>4
  <2> QED
    BY <1>2, <2>2, <2>3
<1>8. D[<<w, w - k>>] = D[<<u, v>>]
  <2> DEFINE s == w - u
  <2>1. s \in Nat /\ u + s = w /\ v + s = w - k
    BY SMTT(30), <1>2, <1>5
  <2>2. SameLines(b, a, u, v, s)
    BY <1>5 DEF SameLines
  <2> HIDE DEF s, v
  <2>3. u + s <= Len(b) /\ v + s <= Len(a)
    BY <1>4, <2>1
  <2>4. D[<<u + s, v + s>>] = D[<<u, v>>]
    BY <1>2, <1>6, <2>1, <2>2, <2>3, EqualLinesAreFree
  <2> QED
    BY <2>1, <2>4
<1> QED
  BY <1>7, <1>8 DEF w

LEMMA CheapAll ==
  ASSUME NEW b \in LineSeq, NEW a \in LineSeq, NEW D, IsDistance(b, a, D),
         NEW tr, NEW n \in Nat, Frontiers(b, a, tr, n)
  PROVE  \A d \in 0..n - 1 : Cheap(b, a, D, tr[d + 1], d)
<1> DEFINE S == {d \in 0..n - 1 : Cheap(b, a, D, tr[d + 1], d)}
<1> SUFFICES ASSUME n > 0 PROVE \A d \in 0..n - 1 : d \in S
  OBVIOUS
<1>1. 0 \in S
  <2> DEFINE w == tr[1][0]
  <2>1. Len(b) \in Nat /\ Len(a) \in Nat
    BY LenProperties DEF LineSeq
  <2>2. Furthers(b, a, 0, 0, w)
    BY DEF Frontiers
  <2>3. 0 + 1 = 1 /\ Diagonals(0) = {0} /\ 0 \in 0..n - 1
    BY DiagonalsAre
  <2>4. ASSUME w <= Len(b), w - 0 <= Len(a) PROVE D[<<w, w - 0>>] <= 0
    <3> HIDE DEF w
    <3>1. w \in Nat /\ w - 0 = w /\ 0 + w = w /\ SameLines(b, a, 0, 0, w)
      BY <2>2 DEF Furthers, SameLines
    <3>2. D[<<0 + w, 0 + w>>] = D[<<0, 0>>]
      <4>1. 0 \in Nat /\ 0 + w <= Len(b) /\ 0 + w <= Len(a)
        BY <2>4, <3>1
      <4> QED
        BY ONLY <3>1, <4>1, b \in LineSeq, a \in LineSeq, IsDistance(b, a, D), EqualLinesAreFree
    <3>3. D[<<0, 0>>] = 0
      <4>1. 0 \in 0..Len(b) /\ 0 \in 0..Len(a)
        BY <2>1
      <4>2. D[<<0, 0>>] = Cell(b, a, D, 0, 0)
        BY <4>1 DEF IsDistance
      <4> QED
        BY <4>2 DEF Cell
    <3> QED
      BY <3>1, <3>2, <3>3
  <2>5. Cheap(b, a, D, tr[0 + 1], 0)
    BY <2>3, <2>4 DEF Cheap
  <2> QED
    BY <2>3, <2>5
<1>2. ASSUME NEW d \in 0..(n - 1) - 1, d \in S PROVE d + 1 \in S
  <2>1. d \in Nat /\ d + 1 <= n - 1 /\ d + 1 \in 0..n - 1 /\ (d + 1) + 1 = d + 2
    OBVIOUS
  <2>2. Cheap(b, a, D, tr[d + 2], d + 1)
    BY <1>2, <2>1, CheapNext
  <2> QED
    BY <2>1, <2>2
<1>3. 0 \in Nat /\ n - 1 \in Nat
  OBVIOUS
<1> HIDE DEF S
<1> QED
  BY ONLY <1>1, <1>2, <1>3, Upwards

\* And a frontier is as far as that distance leads.
Passed(D, tr, n, i, j) ==
  D[<<i, j>>] <= n - 1 =>
    i - j \in Diagonals(D[<<i, j>>]) /\ tr[D[<<i, j>>] + 1][i - j] >= i

PassedUpTo(b, a, D, tr, n, m) ==
  \A i \in 0..Len(b), j \in 0..Len(a) : i + j <= m => Passed(D, tr, n, i, j)

LEMMA PassedNext ==
  ASSUME NEW b \in LineSeq, NEW a \in LineSeq, NEW D, IsDistance(b, a, D),
         NEW tr, NEW n \in Nat, Frontiers(b, a, tr, n),
         NEW i \in 0..Len(b), NEW j \in 0..Len(a),
         \A k \in 0..Len(b), l \in 0..Len(a) : k + l < i + j => Passed(D, tr, n, k, l)
  PROVE  Passed(D, tr, n, i, j)
<1> DEFINE e == D[<<i, j>>]
<1> SUFFICES ASSUME e <= n - 1 PROVE i - j \in Diagonals(e) /\ tr[e + 1][i - j] >= i
  BY DEF Passed
<1>0. e <= n - 1
  OBVIOUS
<1>1. /\ Len(b) \in Nat /\ Len(a) \in Nat /\ i \in Nat /\ j \in Nat
      /\ i # 0 => i - 1 \in 0..Len(b)
      /\ j # 0 => j - 1 \in 0..Len(a)
  BY CellsAround
<1>2. \A k \in 0..Len(b), l \in 0..Len(a) : D[<<k, l>>] \in Nat /\ D[<<k, l>>] = Cell(b, a, D, k, l)
  BY DistanceGrows DEF IsDistance
<1>3. e \in Nat /\ e = Cell(b, a, D, i, j) /\ e \in 0..n - 1
  BY <1>0, <1>2
<1>4. Right(tr[e + 1], e)
  <2> HIDE DEF e
  <2> QED
    BY <1>3, Reaches
<1>5. CASE i = 0
  <2>1. e = j /\ i - j = -j
    BY <1>1, <1>3, <1>5 DEF Cell
  <2>2. i - j \in Diagonals(e)
    BY <1>1, <2>1, DiagonalsEnd
  <2> HIDE DEF e
  <2> QED
    BY <1>4, <1>5, <2>2 DEF Right
<1>6. CASE j = 0
  <2>1. e = i /\ i - j = i
    BY <1>1, <1>3, <1>6 DEF Cell
  <2>2. i - j \in Diagonals(e)
    BY <1>1, <2>1, DiagonalsEnd
  <2> HIDE DEF e
  <2>3. tr[e + 1][i - j] >= i - j
    BY <1>4, <2>2 DEF Right
  <2> QED
    BY <2>1, <2>2, <2>3
<1>7. CASE i # 0 /\ j # 0 /\ b[i] = a[j]
  <2>1. e = D[<<i - 1, j - 1>>]
    BY <1>3, <1>7 DEF Cell
  <2>2. (i - 1) + (j - 1) < i + j /\ (i - 1) - (j - 1) = i - j
    BY <1>1
  <2>3. Passed(D, tr, n, i - 1, j - 1)
    BY <1>1, <1>7, <2>2
  <2> DEFINE w == tr[e + 1][i - j]
  <2>4. i - j \in Diagonals(e) /\ w >= i - 1
    BY <1>0, <2>1, <2>2, <2>3 DEF Passed
  <2>5. w \in Int
    <3> HIDE DEF e
    <3> QED
      BY <1>4, <2>4 DEF Right
  <2>6. w # i - 1
    <3> SUFFICES ASSUME w = i - 1 PROVE FALSE
      OBVIOUS
    <3>1. w + 1 = i /\ (w - (i - j)) + 1 = j /\ w < Len(b) /\ w - (i - j) < Len(a)
      <4> HIDE DEF w
      <4> QED
        BY <1>1, <1>7
    <3>2. b[w + 1] # a[(w - (i - j)) + 1]
      <4> DEFINE k == i - j
      <4>1. k \in Diagonals(e) /\ tr[e + 1][k] < Len(b) /\ tr[e + 1][k] - k < Len(a)
        BY <2>4, <3>1
      <4> HIDE DEF e, k
      <4>2. b[tr[e + 1][k] + 1] # a[(tr[e + 1][k] - k) + 1]
        BY <1>3, <4>1, Stops
      <4> QED
        BY <4>2 DEF k
    <3> HIDE DEF w
    <3> QED
      BY <1>7, <3>1, <3>2
  <2>7. w >= i
    <3> HIDE DEF w
    <3> QED
      BY <1>1, <2>4, <2>5, <2>6
  <2> QED
    BY <2>4, <2>7
<1>8. CASE i # 0 /\ j # 0 /\ b[i] # a[j]
  <2> DEFINE l == D[<<i - 1, j>>]
             u == D[<<i, j - 1>>]
  <2>1. e = 1 + Min({l, u})
    BY <1>3, <1>8 DEF Cell
  <2>2. l \in Nat /\ u \in Nat
    BY <1>1, <1>2, <1>8
  <2>3. Passed(D, tr, n, i - 1, j) /\ Passed(D, tr, n, i, j - 1)
    <3>1. (i - 1) + j < i + j /\ i + (j - 1) < i + j
      BY <1>1
    <3> QED
      BY <1>1, <1>8, <3>1
  <2>4. e = 1 + l \/ e = 1 + u
    <3> HIDE DEF l, u, e
    <3> QED
      BY <2>1, <2>2, LesserOfTwo
  <2> DEFINE d == e - 1
  <2>5. d \in Nat /\ e = d + 1 /\ d + 1 <= n - 1 /\ e + 1 = d + 2
    <3> HIDE DEF l, u, e
    <3> QED
      BY SMTT(30), <1>0, <1>3, <2>2, <2>4
  <2>6. Right(tr[d + 1], d)
    <3>1. d \in 0..n - 1
      <4> HIDE DEF d, e
      <4> QED
        BY <2>5
    <3> HIDE DEF d, e
    <3> QED
      BY <3>1, Reaches
  <2>7. ASSUME l = d PROVE i - j \in Diagonals(e) /\ tr[e + 1][i - j] >= i
    <3>1. (i - 1) - j \in Diagonals(d) /\ tr[d + 1][(i - 1) - j] >= i - 1
      <4>1. l <= n - 1
        <5> HIDE DEF l, d, e
        <5> QED
          BY <2>5, <2>7
      <4> QED
        BY <2>3, <2>7, <4>1 DEF Passed
    <3> DEFINE k == i - j
    <3>2. (i - 1) - j = k - 1 /\ k = (k - 1) + 1 /\ k \in Int
      BY <1>1
    <3> HIDE DEF l, d, e, k
    <3>0. k - 1 \in Diagonals(d) /\ tr[d + 1][k - 1] >= i - 1
      BY <3>1, <3>2
    <3>3. k \in Diagonals(d + 1)
      BY <2>5, <3>0, <3>2, DiagonalsAre
    <3>4. tr[d + 2][k] >= tr[d + 1][k - 1] + 1 /\ tr[d + 2][k] \in Int
      BY <2>5, <3>0, <3>2, <3>3, Moves
    <3>5. tr[d + 1][k - 1] \in Int
      BY <2>6, <3>0 DEF Right
    <3>6. tr[d + 2][k] >= i
      BY ONLY <1>1, <3>0, <3>4, <3>5
    <3> QED
      BY <2>5, <3>3, <3>6 DEF k
  <2>8. ASSUME u = d PROVE i - j \in Diagonals(e) /\ tr[e + 1][i - j] >= i
    <3>1. i - (j - 1) \in Diagonals(d) /\ tr[d + 1][i - (j - 1)] >= i
      <4>1. u <= n - 1
        <5> HIDE DEF u, d, e
        <5> QED
          BY <2>5, <2>8
      <4> QED
        BY <2>3, <2>8, <4>1 DEF Passed
    <3> DEFINE k == i - j
    <3>2. i - (j - 1) = k + 1 /\ k = (k + 1) - 1 /\ k \in Int
      BY <1>1
    <3> HIDE DEF u, d, e, k
    <3>0. k + 1 \in Diagonals(d) /\ tr[d + 1][k + 1] >= i
      BY <3>1, <3>2
    <3>3. k \in Diagonals(d + 1)
      BY <2>5, <3>0, <3>2, DiagonalsAre
    <3>4. tr[d + 2][k] >= tr[d + 1][k + 1] /\ tr[d + 2][k] \in Int
      BY <2>5, <3>0, <3>2, <3>3, Moves
    <3>5. tr[d + 1][k + 1] \in Int
      BY <2>6, <3>0 DEF Right
    <3>6. tr[d + 2][k] >= i
      BY ONLY <1>1, <3>0, <3>4, <3>5
    <3> QED
      BY <2>5, <3>3, <3>6 DEF k
  <2>9. l = d \/ u = d
    <3> HIDE DEF l, u, e
    <3> QED
      BY <2>2, <2>4
  <2> QED
    BY <2>7, <2>8, <2>9
<1> QED
  BY <1>5, <1>6, <1>7, <1>8

LEMMA PassedAll ==
  ASSUME NEW b \in LineSeq, NEW a \in LineSeq, NEW D, IsDistance(b, a, D),
         NEW tr, NEW n \in Nat, Frontiers(b, a, tr, n)
  PROVE  \A i \in 0..Len(b), j \in 0..Len(a) : Passed(D, tr, n, i, j)
<1> DEFINE N == Len(b) + Len(a)
           S == {m \in 0..N : PassedUpTo(b, a, D, tr, n, m)}
<1>0. Len(b) \in Nat /\ Len(a) \in Nat /\ N \in Nat /\ 0 \in Nat
  BY LenProperties DEF LineSeq
<1>1. 0 \in S
  <2>1. ASSUME NEW i \in 0..Len(b), NEW j \in 0..Len(a), i + j <= 0 PROVE Passed(D, tr, n, i, j)
    <3>1. \A k \in 0..Len(b), l \in 0..Len(a) : ~(k + l < i + j)
      BY <1>0, <2>1
    <3> QED
      BY <3>1, PassedNext
  <2> QED
    BY <1>0, <2>1 DEF PassedUpTo
<1>2. ASSUME NEW m \in 0..N - 1, m \in S PROVE m + 1 \in S
  <2>1. ASSUME NEW i \in 0..Len(b), NEW j \in 0..Len(a), i + j <= m + 1 PROVE Passed(D, tr, n, i, j)
    <3>1. ASSUME NEW k \in 0..Len(b), NEW l \in 0..Len(a), k + l < i + j PROVE Passed(D, tr, n, k, l)
      <4>1. k + l <= m
        BY <1>0, <2>1, <3>1
      <4> QED
        BY <1>2, <4>1 DEF PassedUpTo
    <3> QED
      BY <3>1, PassedNext
  <2>2. m + 1 \in 0..N
    BY <1>0
  <2> QED
    BY <2>1, <2>2 DEF PassedUpTo
<1>3. N \in S
  <2> HIDE DEF S
  <2>1. \A m \in 0..N : m \in S
    <3> HIDE DEF N
    <3> QED
      BY ONLY <1>0, <1>1, <1>2, Upwards
  <2> QED
    BY <1>0, <2>1
<1> SUFFICES ASSUME NEW i \in 0..Len(b), NEW j \in 0..Len(a) PROVE Passed(D, tr, n, i, j)
  OBVIOUS
<1>4. i + j <= N
  BY <1>0
<1>5. PassedUpTo(b, a, D, tr, n, N)
  BY <1>3
<1> QED
  BY <1>4, <1>5 DEF PassedUpTo

\* The search ends at the edit distance.
LEMMA DistanceFound ==
  ASSUME NEW b \in LineSeq, NEW a \in LineSeq, NEW tr, NEW n \in Nat, n > 0, Frontiers(b, a, tr, n),
         \A d \in 0..n - 2 : NotEnded(b, a, tr[d + 1], d), ~NotEnded(b, a, tr[n], n - 1)
  PROVE  EditDistance(b, a) = n - 1
<1>1. PICK D : IsDistance(b, a, D) /\ EditDistance(b, a) = D[<<Len(b), Len(a)>>]
  BY DistanceIs
<1> DEFINE e == D[<<Len(b), Len(a)>>]
           k == Len(b) - Len(a)
<1>2. Len(b) \in Nat /\ Len(a) \in Nat /\ k \in Int /\ Len(b) - k = Len(a)
  BY LenProperties DEF LineSeq
<1>3. Len(b) \in 0..Len(b) /\ Len(a) \in 0..Len(a)
  BY <1>2
<1>4. e \in Nat
  BY <1>1, <1>3, DistanceGrows
<1>5. e <= n - 1
  <2>1. n - 1 \in 0..n - 1 /\ (n - 1) + 1 = n
    OBVIOUS
  <2>2. Cheap(b, a, D, tr[n], n - 1)
    BY <1>1, <2>1, CheapAll
  <2>3. k \in Diagonals(n - 1) /\ tr[n][k] = Len(b)
    BY EndIsEnd
  <2> HIDE DEF k
  <2>4. D[<<tr[n][k], tr[n][k] - k>>] <= n - 1
    <3>1. tr[n][k] <= Len(b) /\ tr[n][k] - k <= Len(a)
      BY <1>2, <2>3
    <3> QED
      BY <2>2, <2>3, <3>1 DEF Cheap
  <2> QED
    BY <1>2, <2>3, <2>4
<1>6. ~(e <= n - 2)
  <2> SUFFICES ASSUME e <= n - 2 PROVE FALSE
    OBVIOUS
  <2>0. e <= n - 2
    OBVIOUS
  <2>1. Passed(D, tr, n, Len(b), Len(a))
    BY <1>1, <1>3, PassedAll
  <2>2. k \in Diagonals(e) /\ tr[e + 1][k] >= Len(b)
    BY <1>5, <2>1 DEF Passed
  <2> HIDE DEF e, k
  <2>3. e \in 0..n - 2 /\ e \in 0..n - 1
    BY <1>4, <2>0
  <2>4. Right(tr[e + 1], e) /\ NotEnded(b, a, tr[e + 1], e)
    BY <2>3, Reaches
  <2>5. tr[e + 1][k] \in Int
    BY <2>2, <2>4 DEF Right
  <2>6. tr[e + 1][k] - k >= Len(a)
    BY <1>2, <2>2, <2>5
  <2> QED
    BY <2>2, <2>4, <2>6 DEF NotEnded
<1> HIDE DEF e
<1>7. e = n - 1
  BY <1>4, <1>5, <1>6
<1> QED
  BY <1>1, <1>7 DEF e

-----------------------------------------------------------------------------
(* Scripts.                                                                *)

Edits == [kind : {"equal", "delete", "insert"}, text : Lines]
Script == Seq(Edits)

Changes(es) == {i \in DOMAIN es : es[i].kind # "equal"}

LEMMA ChangesAre ==
  ASSUME NEW es \in Script
  PROVE  IsFiniteSet(Changes(es)) /\ Cardinality(Changes(es)) \in Nat /\ Changes(es) \subseteq 1..Len(es)
<1>1. DOMAIN es = 1..Len(es) /\ Len(es) \in Nat
  BY LenProperties DEF Script
<1>2. Changes(es) \subseteq 1..Len(es)
  BY <1>1 DEF Changes
<1>3. IsFiniteSet(1..Len(es))
  BY <1>1, FS_Interval
<1>4. IsFiniteSet(Changes(es))
  BY <1>2, <1>3, FS_Subset
<1> QED
  BY <1>2, <1>4, FS_CardinalityType

LEMMA ChangesJoin ==
  ASSUME NEW s \in Script, NEW t \in Script
  PROVE  Cardinality(Changes(s \o t)) = Cardinality(Changes(s)) + Cardinality(Changes(t))
<1> DEFINE L == Len(s)
           C == Changes(t)
           f == [i \in C |-> i + L]
           T == {i + L : i \in C}
<1>1. /\ L \in Nat /\ DOMAIN s = 1..L /\ Len(t) \in Nat /\ DOMAIN t = 1..Len(t)
      /\ s \o t \in Script /\ Len(s \o t) = L + Len(t) /\ DOMAIN (s \o t) = 1..L + Len(t)
      /\ \A i \in 1..L + Len(t) : (s \o t)[i] = IF i <= L THEN s[i] ELSE t[i - L]
  BY LenProperties, ConcatProperties DEF Script
<1>2. IsFiniteSet(C) /\ C \subseteq 1..Len(t) /\ IsFiniteSet(Changes(s)) /\ Changes(s) \subseteq 1..L
  BY ChangesAre
<1>3. f \in Bijection(C, T)
  <2>1. f \in [C -> T]
    OBVIOUS
  <2>2. \A i, j \in C : f[i] = f[j] => i = j
    BY <1>1, <1>2
  <2>3. \A m \in T : \E i \in C : f[i] = m
    OBVIOUS
  <2> HIDE DEF f, T, C
  <2> QED
    BY <2>1, <2>2, <2>3 DEF Bijection, Injection, Surjection, IsInjective
<1>4. IsFiniteSet(T) /\ Cardinality(T) = Cardinality(C)
  <2>1. ExistsBijection(C, T)
    BY <1>3 DEF ExistsBijection
  <2> HIDE DEF T, C
  <2> QED
    BY <1>2, <2>1, FS_Bijection
<1>5. Changes(s \o t) = Changes(s) \union T
  <2>1. ASSUME NEW i \in Changes(s \o t) PROVE i \in Changes(s) \union T
    <3>1. i \in 1..L + Len(t) /\ (s \o t)[i].kind # "equal"
      BY <1>1, <2>1 DEF Changes
    <3>2. CASE i <= L
      BY <1>1, <3>1, <3>2 DEF Changes
    <3>3. CASE ~(i <= L)
      <4>1. i - L \in 1..Len(t) /\ (s \o t)[i] = t[i - L] /\ i = (i - L) + L
        BY <1>1, <3>1, <3>3
      <4>2. i - L \in C
        BY <1>1, <3>1, <4>1 DEF Changes
      <4> QED
        BY <4>1, <4>2
    <3> QED
      BY <3>2, <3>3
  <2>2. ASSUME NEW i \in Changes(s) PROVE i \in Changes(s \o t)
    <3>1. i \in 1..L /\ s[i].kind # "equal"
      BY <1>1, <2>2 DEF Changes
    <3>2. i \in 1..L + Len(t) /\ i <= L
      BY <1>1, <3>1
    <3> QED
      BY <1>1, <3>1, <3>2 DEF Changes
  <2>3. ASSUME NEW i \in C PROVE i + L \in Changes(s \o t)
    <3>1. i \in 1..Len(t) /\ t[i].kind # "equal"
      BY <1>1, <2>3 DEF Changes
    <3>2. i + L \in 1..L + Len(t) /\ ~(i + L <= L) /\ (i + L) - L = i
      BY <1>1, <3>1
    <3> QED
      BY <1>1, <3>1, <3>2 DEF Changes
  <2> QED
    BY <2>1, <2>2, <2>3
<1>6. Changes(s) \cap T = {}
  <2>1. ASSUME NEW i \in C PROVE i + L \notin 1..L
    BY <1>1, <1>2
  <2> QED
    BY <1>2, <2>1
<1>7. Cardinality({}) = 0
  BY FS_EmptySet
<1>8. Cardinality(Changes(s)) \in Nat /\ Cardinality(C) \in Nat
  BY ChangesAre
<1> HIDE DEF T, C
<1>9. Cardinality(Changes(s) \union T) = Cardinality(Changes(s)) + Cardinality(T) - Cardinality(Changes(s) \cap T)
  BY <1>2, <1>4, FS_Union
<1> QED
  BY <1>4, <1>5, <1>6, <1>7, <1>8, <1>9 DEF C

\* A run of equal lines, and a single edit.
LEMMA EqualsAre ==
  ASSUME before \in LineSeq, NEW i \in 1..Len(before) + 1, NEW j \in i - 1..Len(before)
  PROVE  /\ Equals(i, j) \in Script /\ Len(Equals(i, j)) = j - i + 1
         /\ \A k \in 1..j - i + 1 : Equals(i, j)[k] = Edit("equal", before[i + k - 1])
         /\ Cardinality(Changes(Equals(i, j))) = 0
<1>1. Len(before) \in Nat /\ \A k \in 1..Len(before) : before[k] \in Lines
  BY LenProperties, ElementOfSeq DEF LineSeq
<1> DEFINE n == j - i + 1
           es == [k \in 1..n |-> Edit("equal", before[i + k - 1])]
<1>2. n \in Nat
  BY <1>1
<1>3. Equals(i, j) = es
  BY DEF Equals
<1>4. ASSUME NEW k \in 1..n PROVE Edit("equal", before[i + k - 1]) \in Edits
  <2>1. i + k - 1 \in 1..Len(before)
    BY <1>1
  <2> QED
    BY <1>1, <2>1 DEF Edits, Edit
<1>5. es \in [1..n -> Edits]
  BY <1>4
<1>6. es \in Script
  <2> HIDE DEF es, n
  <2> QED
    BY <1>2, <1>5, SeqDef DEF Script
<1>7. Len(es) = n
  <2>1. DOMAIN es = 1..n
    OBVIOUS
  <2>2. DOMAIN es = 1..Len(es) /\ Len(es) \in Nat
    <3> HIDE DEF es, n
    <3> QED
      BY <1>6, LenProperties DEF Script
  <2> HIDE DEF es, n
  <2> QED
    BY <1>2, <2>1, <2>2
<1>8. \A k \in 1..n : es[k] = Edit("equal", before[i + k - 1])
  OBVIOUS
<1>9. Changes(es) = {}
  <2>1. \A k \in DOMAIN es : es[k].kind = "equal"
    BY DEF Edit
  <2> HIDE DEF es
  <2> QED
    BY <2>1 DEF Changes
<1> HIDE DEF es
<1> QED
  BY <1>3, <1>6, <1>7, <1>8, <1>9, FS_EmptySet

LEMMA OneEdit ==
  ASSUME NEW e \in Edits
  PROVE  /\ <<e>> \in Script /\ Len(<<e>>) = 1 /\ <<e>>[1] = e
         /\ e.kind # "equal" => Cardinality(Changes(<<e>>)) = 1
<1>1. <<e>> \in Script /\ Len(<<e>>) = 1 /\ <<e>>[1] = e
  BY DEF Script
<1>2. DOMAIN <<e>> = {1}
  OBVIOUS
<1>3. ASSUME e.kind # "equal" PROVE Changes(<<e>>) = {1}
  BY <1>1, <1>2, <1>3 DEF Changes
<1> QED
  BY <1>1, <1>3, FS_Singleton

\* The edit e leads from the point p to the point q.
EditAt(b, a, e, p, q) ==
  \/ e = Edit("equal", b[q[1]]) /\ q = <<p[1] + 1, p[2] + 1>> /\ b[q[1]] = a[q[2]]
  \/ e = Edit("delete", b[q[1]]) /\ q = <<p[1] + 1, p[2]>>
  \/ e = Edit("insert", a[q[2]]) /\ q = <<p[1], p[2] + 1>>

\* at tells the points that the script es passes, from p to q.
Way(b, a, es, at, p, q) ==
  /\ at \in [0..Len(es) -> Cells(b, a)]
  /\ at[0] = p /\ at[Len(es)] = q
  /\ \A i \in 1..Len(es) : EditAt(b, a, es[i], at[i - 1], at[i])

Path(b, a, es, p, q) == \E at : Way(b, a, es, at, p, q)

LEMMA NoPath ==
  ASSUME NEW b, NEW a, NEW p \in Cells(b, a)
  PROVE  Path(b, a, <<>>, p, p)
<1> DEFINE at == [i \in 0..0 |-> p]
<1>1. at \in [0..0 -> Cells(b, a)] /\ at[0] = p
  OBVIOUS
<1>2. Len(<<>>) = 0 /\ 1..0 = {}
  OBVIOUS
<1> HIDE DEF at
<1>3. Way(b, a, <<>>, at, p, p)
  BY <1>1, <1>2 DEF Way
<1> QED
  BY <1>3 DEF Path

LEMMA PathJoin ==
  ASSUME NEW b, NEW a, NEW s \in Script, NEW t \in Script, NEW p, NEW q, NEW r,
         Path(b, a, s, p, q), Path(b, a, t, q, r)
  PROVE  Path(b, a, s \o t, p, r)
<1>1. PICK f : Way(b, a, s, f, p, q)
  BY DEF Path
<1>2. PICK g : Way(b, a, t, g, q, r)
  BY DEF Path
<1> DEFINE L == Len(s)
           M == Len(t)
           at == [i \in 0..L + M |-> IF i <= L THEN f[i] ELSE g[i - L]]
<1>3. /\ L \in Nat /\ M \in Nat
      /\ Len(s \o t) = L + M
      /\ \A i \in 1..L + M : (s \o t)[i] = IF i <= L THEN s[i] ELSE t[i - L]
  BY LenProperties, ConcatProperties DEF Script
<1>4. /\ f \in [0..L -> Cells(b, a)] /\ f[0] = p /\ f[L] = q
      /\ \A i \in 1..L : EditAt(b, a, s[i], f[i - 1], f[i])
  BY <1>1 DEF Way
<1>5. /\ g \in [0..M -> Cells(b, a)] /\ g[0] = q /\ g[M] = r
      /\ \A i \in 1..M : EditAt(b, a, t[i], g[i - 1], g[i])
  BY <1>2 DEF Way
<1>6. ASSUME NEW i \in 0..L PROVE i \in 0..L + M /\ at[i] = f[i] /\ at[i] \in Cells(b, a)
  BY SMTT(30), <1>3, <1>4
<1>7. ASSUME NEW i \in 0..M PROVE i + L \in 0..L + M /\ at[i + L] = g[i] /\ at[i + L] \in Cells(b, a)
  <2>1. i + L \in 0..L + M /\ (i + L) - L = i /\ (i + L <= L => i = 0 /\ i + L = L)
    BY <1>3
  <2>2. at[i + L] = IF i + L <= L THEN f[i + L] ELSE g[i]
    BY <2>1
  <2> HIDE DEF at
  <2>3. at[i + L] = g[i]
    BY <1>4, <1>5, <2>1, <2>2
  <2> QED
    BY <1>5, <2>1, <2>3
<1>8. ASSUME NEW i \in 1..L + M
      PROVE  EditAt(b, a, (s \o t)[i], at[i - 1], at[i])
  <2>1. CASE i <= L
    <3>1. i \in 1..L /\ i \in 0..L /\ i - 1 \in 0..L
      BY <1>3, <2>1
    <3> HIDE DEF at
    <3> QED
      BY <1>3, <1>4, <1>6, <2>1, <3>1
  <2>2. CASE ~(i <= L)
    <3> DEFINE j == i - L
    <3>1. j \in 1..M /\ j \in 0..M /\ j - 1 \in 0..M /\ j + L = i /\ (j - 1) + L = i - 1
      BY <1>3, <2>2
    <3>2. (s \o t)[i] = t[j]
      BY <1>3, <2>2
    <3> HIDE DEF at, j
    <3>3. at[i] = g[j] /\ at[i - 1] = g[j - 1]
      BY <1>7, <3>1
    <3> QED
      BY <1>5, <3>1, <3>2, <3>3
  <2> QED
    BY <2>1, <2>2
<1>9. at \in [0..L + M -> Cells(b, a)]
  <2>1. ASSUME NEW i \in 0..L + M PROVE at[i] \in Cells(b, a)
    <3>1. i \in 0..L \/ (i - L \in 0..M /\ (i - L) + L = i)
      BY <1>3
    <3> HIDE DEF at
    <3> QED
      BY <1>6, <1>7, <3>1
  <2>2. at = [i \in 0..L + M |-> at[i]]
    OBVIOUS
  <2> HIDE DEF at
  <2> QED
    BY <2>1, <2>2
<1>10. at[0] = p /\ at[L + M] = r
  <2>1. 0 \in 0..L /\ M \in 0..M /\ M + L = L + M
    BY <1>3
  <2> HIDE DEF at
  <2> QED
    BY <1>4, <1>5, <1>6, <1>7, <2>1
<1> HIDE DEF at
<1>11. Way(b, a, s \o t, at, p, r)
  BY <1>3, <1>8, <1>9, <1>10 DEF Way
<1> QED
  BY <1>11 DEF Path

LEMMA PathOfOne ==
  ASSUME NEW b, NEW a, NEW e, NEW p \in Cells(b, a), NEW q \in Cells(b, a), EditAt(b, a, e, p, q)
  PROVE  Path(b, a, <<e>>, p, q)
<1> DEFINE at == [i \in 0..1 |-> IF i = 0 THEN p ELSE q]
<1>1. at \in [0..1 -> Cells(b, a)] /\ at[0] = p /\ at[1] = q
  OBVIOUS
<1>2. Len(<<e>>) = 1 /\ <<e>>[1] = e /\ \A i \in 1..1 : i = 1 /\ i - 1 = 0
  OBVIOUS
<1> HIDE DEF at
<1>3. Way(b, a, <<e>>, at, p, q)
  BY <1>1, <1>2 DEF Way
<1> QED
  BY <1>3 DEF Path

LEMMA PathOfEquals ==
  ASSUME before \in LineSeq, after \in LineSeq, NEW u \in Nat, NEW v \in Nat, NEW s \in Nat,
         u + s <= Len(before), v + s <= Len(after), SameLines(before, after, u, v, s)
  PROVE  /\ Equals(u + 1, u + s) \in Script /\ Cardinality(Changes(Equals(u + 1, u + s))) = 0
         /\ Path(before, after, Equals(u + 1, u + s), <<u, v>>, <<u + s, v + s>>)
<1> DEFINE at == [i \in 0..s |-> <<u + i, v + i>>]
           es == Equals(u + 1, u + s)
<1>1. Len(before) \in Nat /\ Len(after) \in Nat
  BY LenProperties DEF LineSeq
<1>2. u + 1 \in 1..Len(before) + 1 /\ u + s \in (u + 1) - 1..Len(before) /\ (u + s) - (u + 1) + 1 = s
  BY <1>1
<1>3. /\ es \in Script /\ Len(es) = s /\ Cardinality(Changes(es)) = 0
      /\ \A k \in 1..s : es[k] = Edit("equal", before[(u + 1) + k - 1])
  BY <1>2, EqualsAre
<1> HIDE DEF es
<1>4. at \in [0..s -> Cells(before, after)]
  <2>1. ASSUME NEW i \in 0..s PROVE <<u + i, v + i>> \in Cells(before, after)
    <3>1. u + i \in 0..Len(before) /\ v + i \in 0..Len(after)
      BY <1>1
    <3> QED
      BY <3>1 DEF Cells
  <2> QED
    BY <2>1
<1>5. at[0] = <<u, v>> /\ at[s] = <<u + s, v + s>>
  <2>1. 0 \in 0..s /\ s \in 0..s /\ u + 0 = u /\ v + 0 = v
    OBVIOUS
  <2> QED
    BY <2>1
<1>6. ASSUME NEW i \in 1..s PROVE EditAt(before, after, es[i], at[i - 1], at[i])
  <2>1. /\ i \in 0..s /\ i - 1 \in 0..s /\ (u + 1) + i - 1 = u + i
        /\ u + i = (u + (i - 1)) + 1 /\ v + i = (v + (i - 1)) + 1
    OBVIOUS
  <2>2. at[i] = <<u + i, v + i>> /\ at[i - 1] = <<u + (i - 1), v + (i - 1)>>
    BY <2>1
  <2>3. before[u + i] = after[v + i]
    BY DEF SameLines
  <2>4. es[i] = Edit("equal", before[u + i])
    BY <1>3, <2>1
  <2> HIDE DEF at
  <2>5. /\ at[i][1] = u + i /\ at[i][2] = v + i
        /\ at[i - 1][1] = u + (i - 1) /\ at[i - 1][2] = v + (i - 1)
    BY <2>2
  <2>6. at[i] = <<at[i - 1][1] + 1, at[i - 1][2] + 1>>
    BY <2>1, <2>2, <2>5
  <2> QED
    BY <2>3, <2>4, <2>5, <2>6 DEF EditAt
<1> HIDE DEF at
<1>7. Way(before, after, es, at, <<u, v>>, <<u + s, v + s>>)
  BY <1>3, <1>4, <1>5, <1>6 DEF Way
<1> QED
  BY <1>3, <1>7 DEF Path, es

-----------------------------------------------------------------------------
(* What hunks make of a text.                                              *)

Hunks == [old_start : Nat \ {0}, removed : LineSeq, added : LineSeq]

\* The recurrence of Patched.
PutAt(lines, hs, put, n) ==
  IF n = 0 THEN [out |-> <<>>, next |-> 1] ELSE PutHunk(lines, put[n - 1], hs[n])

Puts(lines, hs) == CHOOSE put : put = [n \in 0..Len(hs) |-> PutAt(lines, hs, put, n)]

Put(lines, hs) == Puts(lines, hs)[Len(hs)]

LEMMA PatchedIs ==
  ASSUME NEW lines, NEW hs
  PROVE  Patched(lines, hs) = Put(lines, hs).out \o SubSeq(lines, Put(lines, hs).next, Len(lines))
BY DEF Patched, Put, Puts, PutAt

LEMMA PutsAre ==
  ASSUME NEW lines, NEW hs, Len(hs) \in Nat
  PROVE  \A n \in 0..Len(hs) : Puts(lines, hs)[n] = PutAt(lines, hs, Puts(lines, hs), n)
<1> DEFINE L == Len(hs)
           Goes(g, m) == g = [n \in 0..m |-> PutAt(lines, hs, g, n)]
           S == {m \in 0..L : \E g : Goes(g, m)}
<1>0. L \in Nat /\ 0 \in Nat
  OBVIOUS
<1>1. 0 \in S
  <2> DEFINE e == [n \in 0..0 |-> PutAt(lines, hs, <<>>, 0)]
  <2>1. PutAt(lines, hs, e, 0) = PutAt(lines, hs, <<>>, 0)
    BY DEF PutAt
  <2>2. \A n \in 0..0 : n = 0
    OBVIOUS
  <2>3. Goes(e, 0)
    BY <2>1, <2>2
  <2> QED
    BY <2>3
<1>2. ASSUME NEW m \in 0..L - 1, m \in S PROVE m + 1 \in S
  <2>1. PICK g : Goes(g, m)
    BY <1>2
  <2> DEFINE h == [n \in 0..m + 1 |-> IF n = m + 1 THEN PutAt(lines, hs, g, n) ELSE g[n]]
  <2>2. h[m + 1] = PutAt(lines, hs, g, m + 1) /\ \A n \in 0..m : h[n] = g[n]
    OBVIOUS
  <2>3. \A n \in 0..m : g[n] = PutAt(lines, hs, g, n)
    BY <2>1
  <2>4. \A n \in 0..m + 1 : PutAt(lines, hs, h, n) = PutAt(lines, hs, g, n)
    <3> SUFFICES ASSUME NEW n \in 0..m + 1 PROVE PutAt(lines, hs, h, n) = PutAt(lines, hs, g, n)
      OBVIOUS
    <3>1. n # 0 => h[n - 1] = g[n - 1]
      OBVIOUS
    <3> HIDE DEF h
    <3> QED
      BY <3>1 DEF PutAt
  <2>5. \A n \in 0..m + 1 : n = m + 1 \/ n \in 0..m
    OBVIOUS
  <2>6. \A n \in 0..m + 1 : h[n] = PutAt(lines, hs, h, n)
    <3> HIDE DEF h
    <3> QED
      BY <2>2, <2>3, <2>4, <2>5
  <2>7. Goes(h, m + 1)
    <3>1. h = [n \in 0..m + 1 |-> h[n]]
      OBVIOUS
    <3> HIDE DEF h
    <3> QED
      BY <2>6, <3>1
  <2>8. m + 1 \in 0..L
    OBVIOUS
  <2> QED
    BY <2>7, <2>8
<1>3. L \in S
  <2> HIDE DEF S
  <2>1. \A m \in 0..L : m \in S
    <3> HIDE DEF L
    <3> QED
      BY ONLY <1>0, <1>1, <1>2, Upwards
  <2> QED
    BY <1>0, <2>1
<1> DEFINE F == CHOOSE g : Goes(g, L)
<1>4. Goes(F, L)
  BY <1>3
<1>5. F = Puts(lines, hs)
  BY DEF Puts
<1> HIDE DEF F
<1>6. \A n \in 0..L : F[n] = PutAt(lines, hs, F, n)
  BY <1>4
<1> QED
  BY <1>5, <1>6

LEMMA PutNone == ASSUME NEW lines PROVE Put(lines, <<>>) = [out |-> <<>>, next |-> 1]
<1>1. Len(<<>>) = 0 /\ 0 \in Nat /\ 0 \in 0..0
  OBVIOUS
<1> QED
  BY <1>1, PutsAre DEF Put, PutAt

LEMMA PutAppend ==
  ASSUME NEW lines, NEW hs \in Seq(Hunks), NEW h \in Hunks
  PROVE  Put(lines, Append(hs, h)) = PutHunk(lines, Put(lines, hs), h)
<1> DEFINE L == Len(hs)
           t == Append(hs, h)
           f == Puts(lines, hs)
           g == Puts(lines, t)
           S == {n \in 0..L : g[n] = f[n]}
<1>1. /\ L \in Nat /\ Len(t) = L + 1 /\ Len(t) \in Nat /\ 0 \in Nat
      /\ \A i \in 1..L : t[i] = hs[i]
      /\ t[L + 1] = h
  BY LenProperties, AppendProperties
<1> HIDE DEF t
<1>2. \A n \in 0..L : f[n] = PutAt(lines, hs, f, n)
  BY <1>1, PutsAre
<1>3. \A n \in 0..L + 1 : g[n] = PutAt(lines, t, g, n)
  BY <1>1, PutsAre
<1> HIDE DEF f, g
<1>4. 0 \in S
  <2>1. 0 \in 0..L /\ 0 \in 0..L + 1
    BY <1>1
  <2> QED
    BY <1>2, <1>3, <2>1 DEF PutAt
<1>5. ASSUME NEW n \in 0..L - 1, n \in S PROVE n + 1 \in S
  <2>1. n + 1 \in 0..L /\ n + 1 \in 0..L + 1 /\ n + 1 \in 1..L /\ n + 1 # 0 /\ (n + 1) - 1 = n
    BY <1>1
  <2>2. f[n + 1] = PutHunk(lines, f[n], hs[n + 1])
    BY <1>2, <2>1 DEF PutAt
  <2>3. g[n + 1] = PutHunk(lines, g[n], t[n + 1])
    BY <1>3, <2>1 DEF PutAt
  <2> QED
    BY <1>1, <1>5, <2>1, <2>2, <2>3
<1>6. g[L] = f[L]
  <2> HIDE DEF S
  <2>1. \A n \in 0..L : n \in S
    <3> HIDE DEF L
    <3> QED
      BY ONLY <1>1, <1>4, <1>5, Upwards
  <2> QED
    BY <1>1, <2>1 DEF S
<1>7. g[L + 1] = PutHunk(lines, g[L], h)
  <2>1. L + 1 \in 0..L + 1 /\ L + 1 # 0 /\ (L + 1) - 1 = L
    BY <1>1
  <2> QED
    BY <1>1, <1>3, <2>1 DEF PutAt
<1> QED
  BY <1>1, <1>6, <1>7 DEF Put, f, g, t

Ends(hs) == hs[Len(hs)].old_start + Len(hs[Len(hs)].removed)

LEMMA PutEnds ==
  ASSUME NEW lines, NEW hs \in Seq(Hunks), hs # <<>>
  PROVE  Put(lines, hs).next = Ends(hs)
<1>1. PICK s \in Seq(Hunks), h \in Hunks : hs = Append(s, h)
  BY SequenceEmptyOrAppend
<1>2. Put(lines, hs).next = h.old_start + Len(h.removed)
  <2>1. Put(lines, hs) = PutHunk(lines, Put(lines, s), h)
    BY <1>1, PutAppend
  <2> QED
    BY <2>1 DEF PutHunk
<1>3. hs[Len(hs)] = h
  <2>1. Len(hs) = Len(s) + 1 /\ hs[Len(s) + 1] = h
    BY <1>1, AppendProperties
  <2> QED
    BY <2>1
<1> QED
  BY <1>2, <1>3 DEF Ends

\* Hunks that name the lines as they are, apart from each other.
NamesLines(b, h) == SubSeq(b, h.old_start, h.old_start + Len(h.removed) - 1) = h.removed

Neat(b, hs) ==
  /\ hs \in Seq(Hunks)
  /\ \A i \in DOMAIN hs : NamesLines(b, hs[i])
  /\ \A i \in 1..Len(hs) - 1 : hs[i].old_start + Len(hs[i].removed) < hs[i + 1].old_start

LEMMA NeatAppend ==
  ASSUME NEW b, NEW hs \in Seq(Hunks), NEW h \in Hunks
  PROVE  Neat(b, Append(hs, h)) <=> Neat(b, hs) /\ NamesLines(b, h) /\ (hs # <<>> => Ends(hs) < h.old_start)
<1> DEFINE t == Append(hs, h)
           L == Len(hs)
           Gap(s, i) == s[i].old_start + Len(s[i].removed) < s[i + 1].old_start
<1>1. /\ L \in Nat /\ Len(t) = L + 1 /\ t \in Seq(Hunks)
      /\ \A i \in 1..L : t[i] = hs[i]
      /\ t[L + 1] = h
      /\ DOMAIN hs = 1..L /\ DOMAIN t = 1..L + 1
  BY LenProperties, AppendProperties
<1>2. hs # <<>> <=> L # 0
  <2>1. hs # <<>> => L # 0
    BY EmptySeq
  <2> QED
    BY <2>1, EmptySeq
<1> HIDE DEF t
<1>3. (\A i \in DOMAIN t : NamesLines(b, t[i])) <=> (\A i \in DOMAIN hs : NamesLines(b, hs[i])) /\ NamesLines(b, h)
  <2>1. \A i \in 1..L + 1 : i \in 1..L \/ i = L + 1
    BY <1>1
  <2>2. \A i \in 1..L : i \in 1..L + 1
    BY <1>1
  <2>3. L + 1 \in 1..L + 1
    BY <1>1
  <2> QED
    BY <1>1, <2>1, <2>2, <2>3
<1>4. \A i \in 1..L - 1 : Gap(t, i) <=> Gap(hs, i)
  <2>1. \A i \in 1..L - 1 : i \in 1..L /\ i + 1 \in 1..L
    BY <1>1
  <2> QED
    BY <1>1, <2>1
<1>5. L # 0 => (Gap(t, L) <=> Ends(hs) < h.old_start)
  <2>1. L # 0 => L \in 1..L
    BY <1>1
  <2> QED
    BY <1>1, <2>1 DEF Ends
<1> HIDE DEF Gap
<1>6. (\A i \in 1..Len(t) - 1 : Gap(t, i))
      <=> (\A i \in 1..L - 1 : Gap(hs, i)) /\ (hs # <<>> => Ends(hs) < h.old_start)
  <2>0. L \in Nat /\ Len(t) = L + 1
    BY <1>1
  <2> HIDE DEF L
  <2>1. Len(t) - 1 = L
    BY ONLY <2>0
  <2>2. \A i \in 1..L : i \in 1..L - 1 \/ i = L
    BY ONLY <2>0
  <2>3. \A i \in 1..L - 1 : i \in 1..L
    BY ONLY <2>0
  <2>4. L # 0 <=> L \in 1..L
    BY ONLY <2>0
  <2> QED
    BY <1>2, <1>4, <1>5, <2>1, <2>2, <2>3, <2>4
<1> QED
  BY <1>1, <1>3, <1>6 DEF Neat, Gap, t

\* The hunks turn the first l lines of b into the first m lines of a.
Turns(b, a, hs, l, m) ==
  /\ Neat(b, hs)
  /\ LET put == Put(b, hs)
     IN /\ put.out \in LineSeq /\ put.next \in 1..l + 1
        /\ put.out \o SubSeq(b, put.next, l) = SubSeq(a, 1, m)

LEMMA Piece ==
  ASSUME NEW b \in LineSeq, NEW i \in 1..Len(b) + 1, NEW j \in i - 1..Len(b)
  PROVE  SubSeq(b, i, j) \in LineSeq /\ Len(SubSeq(b, i, j)) = j - i + 1
<1>1. Len(b) \in Nat /\ \A k \in 1..Len(b) : b[k] \in Lines
  BY LenProperties, ElementOfSeq DEF LineSeq
<1>2. \A k \in i..j : b[k] \in Lines
  BY <1>1
<1> QED
  BY <1>1, <1>2, SubSeqProperties DEF LineSeq

LEMMA Associative ==
  ASSUME NEW s \in LineSeq, NEW t \in LineSeq, NEW r \in LineSeq
  PROVE  s \o (t \o r) = (s \o t) \o r
BY SMTT(30), ConcatAssociative DEF LineSeq

LEMMA NothingTurns ==
  ASSUME NEW b \in LineSeq, NEW a, NEW l \in 0..Len(b), SubSeq(b, 1, l) = SubSeq(a, 1, l)
  PROVE  Turns(b, a, <<>>, l, l)
<1>1. Len(b) \in Nat
  BY LenProperties DEF LineSeq
<1>2. SubSeq(b, 1, l) \in LineSeq
  BY <1>1, Piece
<1>3. <<>> \o SubSeq(b, 1, l) = SubSeq(a, 1, l)
  BY <1>2, ConcatEmptySeq DEF LineSeq
<1>4. Len(<<>>) = 0 /\ <<>> \in Seq(Hunks) /\ <<>> \in LineSeq /\ DOMAIN <<>> = {} /\ 1..0 - 1 = {}
  BY EmptySeq DEF LineSeq
<1>5. Neat(b, <<>>)
  BY <1>4 DEF Neat
<1>6. 1 \in 1..l + 1
  BY <1>1
<1> QED
  BY <1>3, <1>4, <1>5, <1>6, PutNone DEF Turns

\* A line that both texts keep.
LEMMA LineKept ==
  ASSUME NEW b \in LineSeq, NEW a \in LineSeq, NEW hs, NEW l \in Nat, NEW m \in Nat,
         Turns(b, a, hs, l, m), l < Len(b), m < Len(a), b[l + 1] = a[m + 1]
  PROVE  Turns(b, a, hs, l + 1, m + 1)
<1>1. Len(b) \in Nat /\ Len(a) \in Nat /\ \A k \in 1..Len(b) : b[k] \in Lines
  BY LenProperties, ElementOfSeq DEF LineSeq
<1> DEFINE out == Put(b, hs).out
           next == Put(b, hs).next
<1>2. Neat(b, hs) /\ out \in LineSeq /\ next \in 1..l + 1 /\ out \o SubSeq(b, next, l) = SubSeq(a, 1, m)
  BY DEF Turns
<1> HIDE DEF out, next
<1>3. SubSeq(b, next, l + 1) = SubSeq(b, next, l) \o <<b[l + 1]>>
  <2>1. next \in 1..Len(b) /\ l + 1 \in next..Len(b) /\ (l + 1) - 1 = l
    BY <1>1, <1>2
  <2> QED
    BY <2>1, SubSeqRecursiveSecond DEF LineSeq
<1>4. SubSeq(a, 1, m + 1) = SubSeq(a, 1, m) \o <<a[m + 1]>>
  <2>1. 1 \in 1..Len(a) /\ m + 1 \in 1..Len(a) /\ (m + 1) - 1 = m
    BY <1>1
  <2> QED
    BY <2>1, SubSeqRecursiveSecond DEF LineSeq
<1>5. SubSeq(b, next, l) \in LineSeq
  <2>1. next \in 1..Len(b) + 1 /\ l \in next - 1..Len(b)
    BY <1>1, <1>2
  <2> QED
    BY <2>1, Piece
<1>6. <<b[l + 1]>> \in LineSeq
  <2>1. b[l + 1] \in Lines
    BY <1>1
  <2> QED
    BY <2>1 DEF LineSeq
<1>7. out \o (SubSeq(b, next, l) \o <<b[l + 1]>>) = (out \o SubSeq(b, next, l)) \o <<b[l + 1]>>
  BY ZenonT(30), <1>2, <1>5, <1>6, Associative
<1>8. next \in 1..(l + 1) + 1
  BY <1>2
<1> QED
  BY <1>2, <1>3, <1>4, <1>7, <1>8 DEF Turns, out, next

\* The last hunk, h, is open: it ends where the text has been put.
Ahead(b, hs, h) == Put(b, hs).out \o SubSeq(b, Put(b, hs).next, h.old_start - 1)

Opened(b, a, hs, h, l, m) ==
  /\ hs \in Seq(Hunks) /\ h \in Hunks /\ h.old_start + Len(h.removed) = l + 1
  /\ Ahead(b, hs, h) \in LineSeq
  /\ Turns(b, a, Append(hs, h), l, m)

\* A hunk that has nothing yet.
LEMMA HunkOpens ==
  ASSUME NEW b \in LineSeq, NEW a \in LineSeq, NEW hs, NEW l \in 0..Len(b), NEW m,
         Turns(b, a, hs, l, m), hs # <<>> => Put(b, hs).next <= l
  PROVE  Opened(b, a, hs, Hunk(l + 1, <<>>, <<>>), l, m)
<1> DEFINE h == Hunk(l + 1, <<>>, <<>>)
           out == Put(b, hs).out
           next == Put(b, hs).next
<1>1. Len(b) \in Nat /\ <<>> \in LineSeq /\ Len(<<>>) = 0
  BY LenProperties, EmptySeq DEF LineSeq
<1>2. /\ h \in Hunks /\ h.old_start = l + 1 /\ h.removed = <<>> /\ h.added = <<>>
  BY <1>1 DEF Hunk, Hunks
<1>3. Neat(b, hs) /\ out \in LineSeq /\ next \in 1..l + 1 /\ out \o SubSeq(b, next, l) = SubSeq(a, 1, m)
  BY DEF Turns
<1>4. hs \in Seq(Hunks)
  BY <1>3 DEF Neat
<1>5. hs # <<>> => Ends(hs) < l + 1
  <2>1. hs # <<>> => next = Ends(hs)
    BY <1>4, PutEnds
  <2>2. hs # <<>> => next <= l
    OBVIOUS
  <2> HIDE DEF next
  <2> QED
    BY <1>1, <1>3, <2>1, <2>2
<1> HIDE DEF h
<1>6. Put(b, Append(hs, h)) = PutHunk(b, Put(b, hs), h)
  BY <1>2, <1>4, PutAppend
<1> HIDE DEF out, next
<1>7. Put(b, Append(hs, h)) = [out |-> out \o SubSeq(b, next, l) \o <<>>, next |-> l + 1]
  <2>1. (l + 1) - 1 = l /\ (l + 1) + 0 = l + 1
    BY <1>1
  <2> QED
    BY <1>1, <1>2, <1>6, <2>1 DEF PutHunk, out, next
<1>8. SubSeq(b, l + 1, l) = <<>>
  BY <1>1, SubSeqEmpty
<1> DEFINE now == out \o SubSeq(b, next, l)
<1>9. now \in LineSeq
  <2>1. next \in 1..Len(b) + 1 /\ l \in next - 1..Len(b)
    BY <1>1, <1>3
  <2>2. SubSeq(b, next, l) \in LineSeq
    BY <2>1, Piece
  <2> QED
    BY <1>3, <2>2, ConcatProperties DEF LineSeq
<1>10. now \o <<>> = now
  BY <1>9, ConcatEmptySeq DEF LineSeq
<1>11. NamesLines(b, h)
  <2>1. (l + 1) + 0 - 1 = l
    BY <1>1
  <2> QED
    BY <1>1, <1>2, <1>8, <2>1 DEF NamesLines
<1>12. Neat(b, Append(hs, h))
  BY <1>2, <1>3, <1>4, <1>5, <1>11, NeatAppend
<1>13. l + 1 \in 1..l + 1
  BY <1>1
<1>14. Turns(b, a, Append(hs, h), l, m)
  <2>1. Put(b, Append(hs, h)) = [out |-> now, next |-> l + 1]
    BY <1>7, <1>10
  <2>2. now = SubSeq(a, 1, m)
    BY <1>3
  <2> HIDE DEF now
  <2>3. now \o SubSeq(b, l + 1, l) = SubSeq(a, 1, m)
    BY <1>8, <1>10, <2>2
  <2>4. Put(b, Append(hs, h)).out = now /\ Put(b, Append(hs, h)).next = l + 1
    BY <2>1
  <2> QED
    BY <1>9, <1>12, <1>13, <2>3, <2>4 DEF Turns
<1>15. Ahead(b, hs, h) \in LineSeq
  <2>1. (l + 1) - 1 = l
    BY <1>1
  <2>2. Ahead(b, hs, h) = now
    BY <1>2, <2>1 DEF Ahead, out, next
  <2> HIDE DEF now
  <2> QED
    BY <1>9, <2>2
<1>16. h.old_start + Len(h.removed) = l + 1
  BY <1>1, <1>2
<1>17. Opened(b, a, hs, h, l, m)
  BY <1>2, <1>4, <1>14, <1>15, <1>16 DEF Opened
<1> QED
  BY <1>17 DEF h

\* A hunk that goes on: it takes a line of the old text, or puts one of the new.
HunkIsOpen(b, a, hs, h, l, m) ==
  /\ hs \in Seq(Hunks) /\ h \in Hunks /\ Ahead(b, hs, h) \in LineSeq
  /\ h.removed \in LineSeq /\ Len(h.removed) \in Nat /\ h.old_start \in Nat \ {0} /\ h.added \in LineSeq
  /\ h.old_start + Len(h.removed) = l + 1
  /\ Neat(b, hs) /\ NamesLines(b, h) /\ (hs # <<>> => Ends(hs) < h.old_start)
  /\ Ahead(b, hs, h) \o h.added = SubSeq(a, 1, m)

LEMMA PutHunkIs ==
  ASSUME NEW b, NEW hs \in Seq(Hunks), NEW h \in Hunks
  PROVE  /\ Put(b, Append(hs, h)).out = Ahead(b, hs, h) \o h.added
         /\ Put(b, Append(hs, h)).next = h.old_start + Len(h.removed)
<1> DEFINE put == Put(b, hs)
           p == Put(b, Append(hs, h))
<1>1. p = PutHunk(b, put, h)
  BY PutAppend
<1>2. Ahead(b, hs, h) = put.out \o SubSeq(b, put.next, h.old_start - 1)
  BY DEF Ahead
<1> HIDE DEF put, p
<1> DEFINE front == put.out \o SubSeq(b, put.next, h.old_start - 1)
           out == front \o h.added
           next == h.old_start + Len(h.removed)
<1>3. p = [out |-> out, next |-> next]
  BY <1>1 DEF PutHunk
<1> HIDE DEF front, next, out
<1>4. p.out = out /\ p.next = next
  BY <1>3
<1> QED
  BY <1>2, <1>4 DEF p, out, next, front

LEMMA OpenedIs ==
  ASSUME NEW b \in LineSeq, NEW a, NEW hs, NEW h, NEW l \in Nat, NEW m, Opened(b, a, hs, h, l, m)
  PROVE  HunkIsOpen(b, a, hs, h, l, m)
<1> DEFINE out == Ahead(b, hs, h) \o h.added
<1>1. /\ hs \in Seq(Hunks) /\ h \in Hunks /\ Ahead(b, hs, h) \in LineSeq
      /\ h.old_start + Len(h.removed) = l + 1 /\ Turns(b, a, Append(hs, h), l, m)
  BY DEF Opened
<1>2. h.removed \in LineSeq /\ h.old_start \in Nat \ {0} /\ h.added \in LineSeq
  BY <1>1 DEF Hunks
<1>3. Len(h.removed) \in Nat
  BY <1>2, LenProperties DEF LineSeq
<1>5. Put(b, Append(hs, h)).out = out /\ Put(b, Append(hs, h)).next = h.old_start + Len(h.removed)
  BY <1>1, PutHunkIs
<1>6. out \in LineSeq
  BY <1>1, <1>2, ConcatProperties DEF LineSeq
<1>7. out \o <<>> = out
  <2> HIDE DEF out
  <2> QED
    BY <1>6, ConcatEmptySeq DEF LineSeq
<1> HIDE DEF out
<1>8. SubSeq(b, l + 1, l) = <<>>
  BY SubSeqEmpty
<1>9. Neat(b, Append(hs, h)) /\ out \o SubSeq(b, l + 1, l) = SubSeq(a, 1, m)
  BY <1>1, <1>5 DEF Turns
<1>10. out = SubSeq(a, 1, m)
  BY <1>7, <1>8, <1>9
<1>11. Neat(b, hs) /\ NamesLines(b, h) /\ (hs # <<>> => Ends(hs) < h.old_start)
  BY <1>1, <1>9, NeatAppend
<1> QED
  BY <1>1, <1>2, <1>3, <1>10, <1>11 DEF HunkIsOpen, out

LEMMA IsOpened ==
  ASSUME NEW b \in LineSeq, NEW a \in LineSeq, NEW hs \in Seq(Hunks), NEW h \in Hunks,
         NEW l \in Nat, NEW m,
         Ahead(b, hs, h) \in LineSeq, h.old_start + Len(h.removed) = l + 1,
         Neat(b, hs), NamesLines(b, h), (hs # <<>> => Ends(hs) < h.old_start),
         Ahead(b, hs, h) \o h.added = SubSeq(a, 1, m)
  PROVE  Opened(b, a, hs, h, l, m)
<1> DEFINE out == Ahead(b, hs, h) \o h.added
<1>1. h.added \in LineSeq
  BY DEF Hunks
<1>3. Put(b, Append(hs, h)).out = out /\ Put(b, Append(hs, h)).next = l + 1
  BY PutHunkIs
<1>4. out \in LineSeq
  BY <1>1, ConcatProperties DEF LineSeq
<1>5. out \o <<>> = out
  <2> HIDE DEF out
  <2> QED
    BY <1>4, ConcatEmptySeq DEF LineSeq
<1>6. SubSeq(b, l + 1, l) = <<>> /\ l + 1 \in 1..l + 1
  BY SubSeqEmpty
<1>7. out = SubSeq(a, 1, m)
  OBVIOUS
<1> HIDE DEF out
<1>8. out \o SubSeq(b, l + 1, l) = SubSeq(a, 1, m)
  BY <1>5, <1>6, <1>7
<1>9. Neat(b, Append(hs, h))
  BY NeatAppend
<1>10. Turns(b, a, Append(hs, h), l, m)
  BY <1>3, <1>4, <1>6, <1>8, <1>9 DEF Turns
<1> QED
  BY <1>10 DEF Opened

LEMMA HunkTakes ==
  ASSUME NEW b \in LineSeq, NEW a \in LineSeq, NEW hs, NEW h, NEW l \in Nat, NEW m, l < Len(b),
         Opened(b, a, hs, h, l, m)
  PROVE  Opened(b, a, hs, [h EXCEPT !.removed = Append(@, b[l + 1])], l + 1, m)
<1> DEFINE t == [h EXCEPT !.removed = Append(@, b[l + 1])]
<1>1. Len(b) \in Nat /\ b[l + 1] \in Lines
  <2>1. Len(b) \in Nat /\ \A k \in 1..Len(b) : b[k] \in Lines
    BY LenProperties, ElementOfSeq DEF LineSeq
  <2> QED
    BY <2>1
<1>0. HunkIsOpen(b, a, hs, h, l, m)
  BY OpenedIs
<1>2. /\ hs \in Seq(Hunks) /\ h \in Hunks /\ Ahead(b, hs, h) \in LineSeq
      /\ h.removed \in LineSeq /\ Len(h.removed) \in Nat /\ h.old_start \in Nat \ {0} /\ h.added \in LineSeq
      /\ h.old_start + Len(h.removed) = l + 1
      /\ Neat(b, hs) /\ NamesLines(b, h) /\ (hs # <<>> => Ends(hs) < h.old_start)
      /\ Ahead(b, hs, h) \o h.added = SubSeq(a, 1, m)
  BY <1>0 DEF HunkIsOpen
<1>3. /\ Append(h.removed, b[l + 1]) \in LineSeq
      /\ Len(Append(h.removed, b[l + 1])) = Len(h.removed) + 1
      /\ Append(h.removed, b[l + 1]) = h.removed \o <<b[l + 1]>>
  BY SMTT(30), <1>1, <1>2, AppendProperties, AppendIsConcat DEF LineSeq
<1>4. /\ t.removed = Append(h.removed, b[l + 1]) /\ t.old_start = h.old_start /\ t.added = h.added
      /\ t \in Hunks
  BY <1>2, <1>3 DEF Hunks
<1> HIDE DEF t
<1> DEFINE start == h.old_start
           n == Len(h.removed)
<1>5. start \in Nat \ {0} /\ n \in Nat /\ start + n = l + 1
  BY <1>2
<1>6. t.old_start = start /\ Len(t.removed) = n + 1
  BY <1>3, <1>4
<1> HIDE DEF start, n
<1>7. start + (n + 1) = (l + 1) + 1 /\ start + n - 1 = l /\ start + (n + 1) - 1 = l + 1
  BY <1>5
<1>8. NamesLines(b, t)
  <2>1. SubSeq(b, start, l) = h.removed
    <3>1. SubSeq(b, start, start + n - 1) = h.removed
      BY <1>2 DEF NamesLines, start, n
    <3> QED
      BY <1>7, <3>1
  <2>2. SubSeq(b, start, l + 1) = SubSeq(b, start, l) \o <<b[l + 1]>>
    <3>1. start \in 1..Len(b) /\ l + 1 \in start..Len(b) /\ (l + 1) - 1 = l
      BY <1>1, <1>5
    <3> QED
      BY <3>1, SubSeqRecursiveSecond DEF LineSeq
  <2> QED
    BY <1>3, <1>4, <1>6, <1>7, <2>1, <2>2 DEF NamesLines
<1>9. Ahead(b, hs, t) = Ahead(b, hs, h)
  BY <1>4 DEF Ahead
<1>10. t.old_start + Len(t.removed) = (l + 1) + 1
  BY <1>6, <1>7
<1>11. Opened(b, a, hs, t, l + 1, m)
  <2>1. l + 1 \in Nat
    OBVIOUS
  <2> QED
    BY <1>2, <1>4, <1>8, <1>9, <1>10, <2>1, IsOpened
<1> QED
  BY <1>11 DEF t

LEMMA HunkAdds ==
  ASSUME NEW b \in LineSeq, NEW a \in LineSeq, NEW hs, NEW h, NEW l \in Nat, NEW m \in Nat, m < Len(a),
         Opened(b, a, hs, h, l, m)
  PROVE  Opened(b, a, hs, [h EXCEPT !.added = Append(@, a[m + 1])], l, m + 1)
<1> DEFINE t == [h EXCEPT !.added = Append(@, a[m + 1])]
<1>1. Len(a) \in Nat /\ a[m + 1] \in Lines
  <2>1. Len(a) \in Nat /\ \A k \in 1..Len(a) : a[k] \in Lines
    BY LenProperties, ElementOfSeq DEF LineSeq
  <2> QED
    BY <2>1
<1>0. HunkIsOpen(b, a, hs, h, l, m)
  BY OpenedIs
<1>2. /\ hs \in Seq(Hunks) /\ h \in Hunks /\ Ahead(b, hs, h) \in LineSeq
      /\ h.removed \in LineSeq /\ Len(h.removed) \in Nat /\ h.old_start \in Nat \ {0} /\ h.added \in LineSeq
      /\ h.old_start + Len(h.removed) = l + 1
      /\ Neat(b, hs) /\ NamesLines(b, h) /\ (hs # <<>> => Ends(hs) < h.old_start)
      /\ Ahead(b, hs, h) \o h.added = SubSeq(a, 1, m)
  BY <1>0 DEF HunkIsOpen
<1>3. /\ Append(h.added, a[m + 1]) \in LineSeq
      /\ Append(h.added, a[m + 1]) = h.added \o <<a[m + 1]>>
      /\ <<a[m + 1]>> \in LineSeq
  <2>1. <<a[m + 1]>> \in LineSeq
    BY <1>1 DEF LineSeq
  <2> QED
    BY <1>1, <1>2, <2>1, AppendProperties, AppendIsConcat DEF LineSeq
<1>4. /\ t.added = Append(h.added, a[m + 1]) /\ t.old_start = h.old_start /\ t.removed = h.removed
      /\ t \in Hunks
  BY <1>2, <1>3 DEF Hunks
<1> HIDE DEF t
<1>5. NamesLines(b, t)
  BY <1>2, <1>4 DEF NamesLines
<1>6. Ahead(b, hs, t) = Ahead(b, hs, h)
  BY <1>4 DEF Ahead
<1>7. t.old_start + Len(t.removed) = l + 1
  BY <1>2, <1>4
<1>8. Ahead(b, hs, t) \o t.added = SubSeq(a, 1, m + 1)
  <2> DEFINE f == Ahead(b, hs, h)
  <2>1. f \o (h.added \o <<a[m + 1]>>) = (f \o h.added) \o <<a[m + 1]>>
    <3> HIDE DEF f
    <3>1. f \in LineSeq
      BY <1>2 DEF f
    <3> QED
      BY ZenonT(30), <1>2, <1>3, <3>1, Associative
  <2>2. SubSeq(a, 1, m + 1) = SubSeq(a, 1, m) \o <<a[m + 1]>>
    <3>1. 1 \in 1..Len(a) /\ m + 1 \in 1..Len(a) /\ (m + 1) - 1 = m
      BY <1>1
    <3> QED
      BY <3>1, SubSeqRecursiveSecond DEF LineSeq
  <2> QED
    BY <1>2, <1>3, <1>4, <1>6, <2>1, <2>2
<1>9. Opened(b, a, hs, t, l, m + 1)
  BY <1>2, <1>4, <1>5, <1>6, <1>7, <1>8, IsOpened
<1> QED
  BY <1>9 DEF t

-----------------------------------------------------------------------------
(* Grouping.                                                               *)

\* The groups found so far, and the open one, turn l lines of b into m lines of a.
Grouping(b, a, g, l, m) ==
  /\ g.line = l + 1 /\ g.found \in Seq(Hunks)
  /\ \/ g.open = <<>> /\ Turns(b, a, g.found, l, m) /\ (g.found # <<>> => Put(b, g.found).next <= l)
     \/ \E h \in Hunks : g.open = <<h>> /\ Opened(b, a, g.found, h, l, m)

\* What becomes of the groups when an equal line closes the open one.
LEMMA GroupsTurn ==
  ASSUME NEW b \in LineSeq, NEW a, NEW g, NEW l \in Nat, NEW m, Grouping(b, a, g, l, m)
  PROVE  Turns(b, a, g.found \o g.open, l, m)
<1> DEFINE hs == g.found
<1>1. hs \in Seq(Hunks)
  BY DEF Grouping
<1>2. CASE g.open = <<>> /\ Turns(b, a, hs, l, m)
  <2>1. hs \o <<>> = hs
    <3> HIDE DEF hs
    <3> QED
      BY <1>1, ConcatEmptySeq
  <2> QED
    BY <1>2, <2>1
<1>3. ASSUME NEW h \in Hunks, g.open = <<h>>, Opened(b, a, hs, h, l, m)
      PROVE  Turns(b, a, hs \o g.open, l, m)
  <2>1. Append(hs, h) = hs \o <<h>>
    <3> HIDE DEF hs
    <3> QED
      BY <1>1, AppendIsConcat
  <2> QED
    BY <1>3, <2>1 DEF Opened
<1> QED
  BY <1>2, <1>3 DEF Grouping

LEMMA GroupedIs ==
  ASSUME NEW g, NEW e
  PROVE  LET here == IF g.open = <<>> THEN Hunk(g.line, <<>>, <<>>) ELSE g.open[1]
         IN /\ e.kind = "equal" =>
                 Grouped(g, e) = [line |-> g.line + 1, found |-> g.found \o g.open, open |-> <<>>]
            /\ e.kind = "delete" =>
                 Grouped(g, e) = [line |-> g.line + 1, found |-> g.found,
                                  open |-> <<[here EXCEPT !.removed = Append(@, e.text)]>>]
            /\ e.kind = "insert" =>
                 Grouped(g, e) = [line |-> g.line, found |-> g.found,
                                  open |-> <<[here EXCEPT !.added = Append(@, e.text)]>>]
BY ZenonT(30) DEF Grouped

\* The hunk that an insertion or a deletion goes to.
LEMMA HereIsOpened ==
  ASSUME NEW b \in LineSeq, NEW a \in LineSeq, NEW g, NEW l \in 0..Len(b), NEW m, Grouping(b, a, g, l, m)
  PROVE  Opened(b, a, g.found, IF g.open = <<>> THEN Hunk(g.line, <<>>, <<>>) ELSE g.open[1], l, m)
<1>1. CASE g.open = <<>> /\ Turns(b, a, g.found, l, m) /\ (g.found # <<>> => Put(b, g.found).next <= l)
  <2>1. Opened(b, a, g.found, Hunk(l + 1, <<>>, <<>>), l, m)
    BY <1>1, HunkOpens
  <2>2. g.line = l + 1
    BY DEF Grouping
  <2> QED
    BY <1>1, <2>1, <2>2
<1>2. ASSUME NEW h \in Hunks, g.open = <<h>>, Opened(b, a, g.found, h, l, m)
      PROVE  g.open # <<>> /\ g.open[1] = h
  BY <1>2
<1> QED
  BY <1>1, <1>2 DEF Grouping

LEMMA EqualGrouped ==
  ASSUME NEW b \in LineSeq, NEW a \in LineSeq, NEW g, NEW l \in Nat, NEW m \in Nat, Grouping(b, a, g, l, m),
         NEW e, e.kind = "equal", l < Len(b), m < Len(a), b[l + 1] = a[m + 1]
  PROVE  Grouping(b, a, Grouped(g, e), l + 1, m + 1)
<1> DEFINE hs == g.found \o g.open
           n == Grouped(g, e)
<1>1. n = [line |-> g.line + 1, found |-> hs, open |-> <<>>]
  BY GroupedIs
<1>2. Turns(b, a, hs, l, m)
  BY GroupsTurn
<1> HIDE DEF hs, n
<1>3. n.line = g.line + 1 /\ n.found = hs /\ n.open = <<>> /\ g.line = l + 1
  BY <1>1 DEF Grouping
<1>4. Turns(b, a, hs, l + 1, m + 1)
  BY <1>2, LineKept
<1>5. hs \in Seq(Hunks) /\ Put(b, hs).next \in 1..l + 1
  BY <1>2 DEF Turns, Neat
<1>6. Put(b, hs).next <= l + 1
  BY <1>5
<1> QED
  BY <1>3, <1>4, <1>5, <1>6 DEF Grouping, n

LEMMA DeleteGrouped ==
  ASSUME NEW b \in LineSeq, NEW a \in LineSeq, NEW g, NEW l \in Nat, NEW m, Grouping(b, a, g, l, m),
         NEW e, e.kind = "delete", l < Len(b), e.text = b[l + 1]
  PROVE  Grouping(b, a, Grouped(g, e), l + 1, m)
<1> DEFINE here == IF g.open = <<>> THEN Hunk(g.line, <<>>, <<>>) ELSE g.open[1]
           t == [here EXCEPT !.removed = Append(@, b[l + 1])]
           n == Grouped(g, e)
<1>0. l \in 0..Len(b)
  BY LenProperties DEF LineSeq
<1>1. Opened(b, a, g.found, here, l, m)
  BY <1>0, HereIsOpened
<1>2. n = [line |-> g.line + 1, found |-> g.found, open |-> <<[here EXCEPT !.removed = Append(@, e.text)]>>]
  BY GroupedIs
<1>3. n = [line |-> g.line + 1, found |-> g.found, open |-> <<t>>]
  BY <1>2
<1>4. Opened(b, a, g.found, t, l + 1, m)
  <2> HIDE DEF here
  <2> QED
    BY <1>1, HunkTakes
<1> HIDE DEF t, n
<1>5. n.line = g.line + 1 /\ n.found = g.found /\ n.open = <<t>> /\ g.line = l + 1 /\ g.found \in Seq(Hunks)
  BY <1>3 DEF Grouping
<1>6. t \in Hunks
  BY <1>4 DEF Opened
<1> QED
  BY <1>4, <1>5, <1>6 DEF Grouping, n

LEMMA InsertGrouped ==
  ASSUME NEW b \in LineSeq, NEW a \in LineSeq, NEW g, NEW l \in 0..Len(b), NEW m \in Nat, Grouping(b, a, g, l, m),
         NEW e, e.kind = "insert", m < Len(a), e.text = a[m + 1]
  PROVE  Grouping(b, a, Grouped(g, e), l, m + 1)
<1> DEFINE here == IF g.open = <<>> THEN Hunk(g.line, <<>>, <<>>) ELSE g.open[1]
           t == [here EXCEPT !.added = Append(@, a[m + 1])]
           n == Grouped(g, e)
<1>0. l \in Nat
  BY LenProperties DEF LineSeq
<1>1. Opened(b, a, g.found, here, l, m)
  BY HereIsOpened
<1>2. n = [line |-> g.line, found |-> g.found, open |-> <<[here EXCEPT !.added = Append(@, e.text)]>>]
  BY GroupedIs
<1>3. n = [line |-> g.line, found |-> g.found, open |-> <<t>>]
  BY <1>2
<1>4. Opened(b, a, g.found, t, l, m + 1)
  <2> HIDE DEF here
  <2> QED
    BY <1>0, <1>1, HunkAdds
<1> HIDE DEF t, n
<1>5. n.line = g.line /\ n.found = g.found /\ n.open = <<t>> /\ g.line = l + 1 /\ g.found \in Seq(Hunks)
  BY <1>3 DEF Grouping
<1>6. t \in Hunks
  BY <1>4 DEF Opened
<1> QED
  BY <1>4, <1>5, <1>6 DEF Grouping, n

\* The recurrence of Group.
GroupAt(es, start, grouped, n) ==
  IF n = 0 THEN [line |-> start, found |-> <<>>, open |-> <<>>]
           ELSE Grouped(grouped[n - 1], es[n])

Groups(es, start) == CHOOSE grouped : grouped = [n \in 0..Len(es) |-> GroupAt(es, start, grouped, n)]

LEMMA GroupsAre ==
  ASSUME NEW es, Len(es) \in Nat, NEW start
  PROVE  \A n \in 0..Len(es) : Groups(es, start)[n] = GroupAt(es, start, Groups(es, start), n)
<1> DEFINE L == Len(es)
           Goes(g, m) == g = [n \in 0..m |-> GroupAt(es, start, g, n)]
           S == {m \in 0..L : \E g : Goes(g, m)}
<1>0. L \in Nat /\ 0 \in Nat
  OBVIOUS
<1>1. 0 \in S
  <2> DEFINE e == [n \in 0..0 |-> GroupAt(es, start, <<>>, 0)]
  <2>1. GroupAt(es, start, e, 0) = GroupAt(es, start, <<>>, 0)
    BY DEF GroupAt
  <2>2. \A n \in 0..0 : n = 0
    OBVIOUS
  <2>3. Goes(e, 0)
    BY <2>1, <2>2
  <2> QED
    BY <2>3
<1>2. ASSUME NEW m \in 0..L - 1, m \in S PROVE m + 1 \in S
  <2>1. PICK g : Goes(g, m)
    BY <1>2
  <2> DEFINE h == [n \in 0..m + 1 |-> IF n = m + 1 THEN GroupAt(es, start, g, n) ELSE g[n]]
  <2>2. h[m + 1] = GroupAt(es, start, g, m + 1) /\ \A n \in 0..m : h[n] = g[n]
    OBVIOUS
  <2>3. \A n \in 0..m : g[n] = GroupAt(es, start, g, n)
    BY <2>1
  <2>4. \A n \in 0..m + 1 : GroupAt(es, start, h, n) = GroupAt(es, start, g, n)
    <3> SUFFICES ASSUME NEW n \in 0..m + 1 PROVE GroupAt(es, start, h, n) = GroupAt(es, start, g, n)
      OBVIOUS
    <3>1. n # 0 => h[n - 1] = g[n - 1]
      OBVIOUS
    <3> HIDE DEF h
    <3> QED
      BY <3>1 DEF GroupAt
  <2>5. \A n \in 0..m + 1 : n = m + 1 \/ n \in 0..m
    OBVIOUS
  <2>6. \A n \in 0..m + 1 : h[n] = GroupAt(es, start, h, n)
    <3> HIDE DEF h
    <3> QED
      BY <2>2, <2>3, <2>4, <2>5
  <2>7. Goes(h, m + 1)
    <3>1. h = [n \in 0..m + 1 |-> h[n]]
      OBVIOUS
    <3> HIDE DEF h
    <3> QED
      BY <2>6, <3>1
  <2>8. m + 1 \in 0..L
    OBVIOUS
  <2> QED
    BY <2>7, <2>8
<1>3. L \in S
  <2> HIDE DEF S
  <2>1. \A m \in 0..L : m \in S
    <3> HIDE DEF L
    <3> QED
      BY ONLY <1>0, <1>1, <1>2, Upwards
  <2> QED
    BY <1>0, <2>1
<1> DEFINE F == CHOOSE g : Goes(g, L)
<1>4. Goes(F, L)
  BY <1>3
<1>5. F = Groups(es, start)
  BY DEF Groups
<1> HIDE DEF F
<1>6. \A n \in 0..L : F[n] = GroupAt(es, start, F, n)
  BY <1>4
<1> QED
  BY <1>5, <1>6

\* What trimming leaves, b and a, of the texts o and w, and what it takes.
IsTrimmed(o, w, p, b, a) ==
  /\ o \in LineSeq /\ w \in LineSeq /\ b \in LineSeq /\ a \in LineSeq
  /\ p \in Nat /\ p + Len(b) <= Len(o) /\ p + Len(a) <= Len(w)
  /\ b = SubSeq(o, p + 1, p + Len(b))
  /\ a = SubSeq(w, p + 1, p + Len(a))
  /\ SubSeq(o, 1, p) = SubSeq(w, 1, p)
  /\ SubSeq(o, p + Len(b) + 1, Len(o)) = SubSeq(w, p + Len(a) + 1, Len(w))

Trimmed == IsTrimmed(old, new, prefix, before, after)

LEMMA TrimmedLines ==
  ASSUME NEW o, NEW w, NEW p, NEW b, NEW a, IsTrimmed(o, w, p, b, a)
  PROVE  /\ Len(o) \in Nat /\ Len(w) \in Nat /\ Len(b) \in Nat /\ Len(a) \in Nat
         /\ \A i \in 1..Len(b) : b[i] = o[p + i]
         /\ \A i \in 1..Len(a) : a[i] = w[p + i]
<1>1. /\ Len(o) \in Nat /\ \A k \in 1..Len(o) : o[k] \in Lines
      /\ Len(w) \in Nat /\ \A k \in 1..Len(w) : w[k] \in Lines
      /\ Len(b) \in Nat /\ Len(a) \in Nat /\ p \in Nat
      /\ p + Len(b) <= Len(o) /\ p + Len(a) <= Len(w)
  BY LenProperties, ElementOfSeq DEF IsTrimmed, LineSeq
<1>2. ASSUME NEW i \in 1..Len(b) PROVE b[i] = o[p + i]
  <2> DEFINE m == p + 1
             n == p + Len(b)
  <2>1. m \in Int /\ n \in Int /\ i \in 1..n - m + 1 /\ m + i - 1 = p + i
    BY <1>1
  <2>2. \A k \in m..n : o[k] \in Lines
    BY <1>1
  <2>3. b = SubSeq(o, m, n)
    BY DEF IsTrimmed
  <2> HIDE DEF m, n
  <2>4. SubSeq(o, m, n)[i] = o[m + i - 1]
    BY <2>1, <2>2, SubSeqProperties
  <2> QED
    BY <2>1, <2>3, <2>4
<1>3. ASSUME NEW i \in 1..Len(a) PROVE a[i] = w[p + i]
  <2> DEFINE m == p + 1
             n == p + Len(a)
  <2>1. m \in Int /\ n \in Int /\ i \in 1..n - m + 1 /\ m + i - 1 = p + i
    BY <1>1
  <2>2. \A k \in m..n : w[k] \in Lines
    BY <1>1
  <2>3. a = SubSeq(w, m, n)
    BY DEF IsTrimmed
  <2> HIDE DEF m, n
  <2>4. SubSeq(w, m, n)[i] = w[m + i - 1]
    BY <2>1, <2>2, SubSeqProperties
  <2> QED
    BY <2>1, <2>3, <2>4
<1> QED
  BY <1>1, <1>2, <1>3

\* One edit of a script, grouped.
LEMMA EditGrouped ==
  ASSUME Trimmed, NEW g, NEW e, NEW p \in Cells(before, after), NEW q \in Cells(before, after),
         EditAt(before, after, e, p, q), Grouping(old, new, g, prefix + p[1], prefix + p[2])
  PROVE  Grouping(old, new, Grouped(g, e), prefix + q[1], prefix + q[2])
<1> DEFINE l == prefix + p[1]
           m == prefix + p[2]
<1>1. /\ Len(old) \in Nat /\ Len(new) \in Nat /\ Len(before) \in Nat /\ Len(after) \in Nat
      /\ \A i \in 1..Len(before) : before[i] = old[prefix + i]
      /\ \A i \in 1..Len(after) : after[i] = new[prefix + i]
  BY TrimmedLines DEF Trimmed
<1>2. /\ old \in LineSeq /\ new \in LineSeq /\ prefix \in Nat
      /\ prefix + Len(before) <= Len(old) /\ prefix + Len(after) <= Len(new)
  BY DEF Trimmed, IsTrimmed
<1>3. p[1] \in 0..Len(before) /\ p[2] \in 0..Len(after) /\ q[1] \in 0..Len(before) /\ q[2] \in 0..Len(after)
  BY DEF Cells
<1>4. /\ l \in Nat /\ m \in Nat /\ l \in 0..Len(old) /\ m \in 0..Len(new)
      /\ p[1] + 1 \in 0..Len(before) => p[1] + 1 \in 1..Len(before) /\ prefix + (p[1] + 1) = l + 1 /\ l < Len(old)
      /\ p[2] + 1 \in 0..Len(after) => p[2] + 1 \in 1..Len(after) /\ prefix + (p[2] + 1) = m + 1 /\ m < Len(new)
  <2> DEFINE i == p[1]
             j == p[2]
  <2>1. i \in 0..Len(before) /\ j \in 0..Len(after)
    BY <1>3
  <2> HIDE DEF i, j
  <2>2. Len(old) \in Nat /\ Len(new) \in Nat /\ Len(before) \in Nat /\ Len(after) \in Nat
    BY <1>1
  <2>3. /\ prefix + i \in Nat /\ prefix + j \in Nat /\ prefix + i \in 0..Len(old) /\ prefix + j \in 0..Len(new)
        /\ i + 1 \in 0..Len(before) =>
             i + 1 \in 1..Len(before) /\ prefix + (i + 1) = (prefix + i) + 1 /\ prefix + i < Len(old)
        /\ j + 1 \in 0..Len(after) =>
             j + 1 \in 1..Len(after) /\ prefix + (j + 1) = (prefix + j) + 1 /\ prefix + j < Len(new)
    BY ONLY <1>2, <2>1, <2>2
  <2> QED
    BY <2>3 DEF i, j
<1>5. Grouping(old, new, g, l, m)
  OBVIOUS
<1>6. CASE e = Edit("equal", before[q[1]]) /\ q = <<p[1] + 1, p[2] + 1>> /\ before[q[1]] = after[q[2]]
  <2>1. q[1] = p[1] + 1 /\ q[2] = p[2] + 1 /\ e.kind = "equal"
    BY <1>6 DEF Edit
  <2>2. /\ l < Len(old) /\ m < Len(new) /\ prefix + q[1] = l + 1 /\ prefix + q[2] = m + 1
        /\ q[1] \in 1..Len(before) /\ q[2] \in 1..Len(after)
    BY <1>3, <1>4, <2>1
  <2>3. old[l + 1] = new[m + 1]
    <3>1. before[q[1]] = old[prefix + q[1]] /\ after[q[2]] = new[prefix + q[2]]
      BY <1>1, <2>2
    <3> QED
      BY <1>6, <2>2, <3>1
  <2> HIDE DEF l, m
  <2>4. Grouping(old, new, Grouped(g, e), l + 1, m + 1)
    BY <1>2, <1>4, <1>5, <2>1, <2>2, <2>3, EqualGrouped
  <2> QED
    BY <2>2, <2>4
<1>7. CASE e = Edit("delete", before[q[1]]) /\ q = <<p[1] + 1, p[2]>>
  <2>1. q[1] = p[1] + 1 /\ q[2] = p[2] /\ e.kind = "delete" /\ e.text = before[q[1]]
    BY <1>7 DEF Edit
  <2>2. /\ l < Len(old) /\ prefix + q[1] = l + 1 /\ prefix + q[2] = m
        /\ q[1] \in 1..Len(before)
    BY <1>3, <1>4, <2>1
  <2>3. e.text = old[l + 1]
    <3>1. before[q[1]] = old[prefix + q[1]]
      BY <1>1, <2>2
    <3> QED
      BY <2>1, <2>2, <3>1
  <2> HIDE DEF l, m
  <2>4. Grouping(old, new, Grouped(g, e), l + 1, m)
    BY <1>2, <1>4, <1>5, <2>1, <2>2, <2>3, DeleteGrouped
  <2> QED
    BY <2>2, <2>4
<1>8. CASE e = Edit("insert", after[q[2]]) /\ q = <<p[1], p[2] + 1>>
  <2>1. q[1] = p[1] /\ q[2] = p[2] + 1 /\ e.kind = "insert" /\ e.text = after[q[2]]
    BY <1>8 DEF Edit
  <2>2. /\ m < Len(new) /\ prefix + q[1] = l /\ prefix + q[2] = m + 1
        /\ q[2] \in 1..Len(after)
    BY <1>3, <1>4, <2>1
  <2>3. e.text = new[m + 1]
    <3>1. after[q[2]] = new[prefix + q[2]]
      BY <1>1, <2>2
    <3> QED
      BY <2>1, <2>2, <3>1
  <2> HIDE DEF l, m
  <2>4. Grouping(old, new, Grouped(g, e), l, m + 1)
    BY <1>2, <1>4, <1>5, <2>1, <2>2, <2>3, InsertGrouped
  <2> QED
    BY <2>2, <2>4
<1> QED
  BY <1>6, <1>7, <1>8 DEF EditAt

LEMMA ScriptGrouped ==
  ASSUME Trimmed, edits \in Script,
         Path(before, after, edits, <<0, 0>>, <<Len(before), Len(after)>>)
  PROVE  LET all == Groups(edits, prefix + 1)[Len(edits)]
         IN Turns(old, new, all.found \o all.open, prefix + Len(before), prefix + Len(after))
<1> DEFINE L == Len(edits)
           g == Groups(edits, prefix + 1)
           end == <<Len(before), Len(after)>>
<1>1. PICK at : Way(before, after, edits, at, <<0, 0>>, end)
  BY DEF Path
<1> DEFINE S == {n \in 0..L : Grouping(old, new, g[n], prefix + at[n][1], prefix + at[n][2])}
<1>2. /\ Len(old) \in Nat /\ Len(new) \in Nat /\ Len(before) \in Nat /\ Len(after) \in Nat
      /\ old \in LineSeq /\ prefix \in Nat /\ prefix + Len(before) <= Len(old)
      /\ L \in Nat /\ 0 \in Nat
  BY TrimmedLines, LenProperties DEF Trimmed, IsTrimmed, Script
<1>3. \A n \in 0..L : g[n] = GroupAt(edits, prefix + 1, g, n)
  BY <1>2, GroupsAre
<1>4. /\ at \in [0..L -> Cells(before, after)] /\ at[0] = <<0, 0>> /\ at[L] = end
      /\ \A n \in 1..L : EditAt(before, after, edits[n], at[n - 1], at[n])
  BY <1>1 DEF Way
<1> HIDE DEF g
<1>5. 0 \in S
  <2>1. g[0] = [line |-> prefix + 1, found |-> <<>>, open |-> <<>>]
    BY <1>2, <1>3 DEF GroupAt
  <2>2. SubSeq(old, 1, prefix) = SubSeq(new, 1, prefix)
    BY DEF Trimmed, IsTrimmed
  <2>3. Turns(old, new, <<>>, prefix, prefix)
    BY <1>2, <2>2, NothingTurns
  <2>4. Grouping(old, new, g[0], prefix, prefix)
    BY <2>1, <2>3 DEF Grouping
  <2>5. prefix + at[0][1] = prefix /\ prefix + at[0][2] = prefix
    BY <1>2, <1>4
  <2> QED
    BY <1>2, <2>4, <2>5
<1>6. ASSUME NEW n \in 0..L - 1, n \in S PROVE n + 1 \in S
  <2>1. n + 1 \in 0..L /\ n + 1 \in 1..L /\ n \in 0..L /\ n + 1 # 0 /\ (n + 1) - 1 = n
    BY <1>2
  <2>2. g[n + 1] = Grouped(g[n], edits[n + 1])
    BY <1>3, <2>1 DEF GroupAt
  <2>3. /\ at[n] \in Cells(before, after) /\ at[n + 1] \in Cells(before, after)
        /\ EditAt(before, after, edits[n + 1], at[n], at[n + 1])
    BY <1>4, <2>1
  <2>4. Grouping(old, new, g[n], prefix + at[n][1], prefix + at[n][2])
    BY <1>6
  <2>5. Grouping(old, new, Grouped(g[n], edits[n + 1]), prefix + at[n + 1][1], prefix + at[n + 1][2])
    BY <2>3, <2>4, EditGrouped
  <2> QED
    BY <2>1, <2>2, <2>5
<1>7. L \in S
  <2> HIDE DEF S
  <2>1. \A n \in 0..L : n \in S
    <3> HIDE DEF L
    <3> QED
      BY ONLY <1>2, <1>5, <1>6, Upwards
  <2> QED
    BY <1>2, <2>1
<1>8. Grouping(old, new, g[L], prefix + Len(before), prefix + Len(after))
  <2>1. Grouping(old, new, g[L], prefix + at[L][1], prefix + at[L][2])
    BY <1>7
  <2> QED
    BY <1>4, <2>1
<1>9. prefix + Len(before) \in Nat
  BY <1>2
<1>10. Turns(old, new, g[L].found \o g[L].open, prefix + Len(before), prefix + Len(after))
  BY <1>2, <1>8, <1>9, GroupsTurn
<1> QED
  BY <1>10 DEF g

\* One hunk for all that was not trimmed.
LEMMA OneHunk ==
  ASSUME NEW o, NEW w, NEW p, NEW b, NEW a, IsTrimmed(o, w, p, b, a)
  PROVE  Turns(o, w, <<Hunk(p + 1, b, a)>>, p + Len(b), p + Len(a))
<1> DEFINE h == Hunk(p + 1, b, a)
           l == p + Len(b)
           m == p + Len(a)
<1>1. /\ Len(o) \in Nat /\ Len(w) \in Nat /\ Len(b) \in Nat /\ Len(a) \in Nat
      /\ o \in LineSeq /\ w \in LineSeq /\ b \in LineSeq /\ a \in LineSeq
      /\ p \in Nat /\ l <= Len(o) /\ m <= Len(w)
      /\ b = SubSeq(o, p + 1, l)
      /\ a = SubSeq(w, p + 1, m)
      /\ SubSeq(o, 1, p) = SubSeq(w, 1, p)
  BY TrimmedLines DEF IsTrimmed
<1>2. l \in Nat /\ m \in Nat /\ p <= l /\ p <= m
  BY <1>1
<1>3. h.old_start = p + 1 /\ h.removed = b /\ h.added = a /\ h \in Hunks
  BY <1>1 DEF Hunk, Hunks
<1> HIDE DEF h
<1>4. SubSeq(o, 1, p) \in LineSeq
  <2>1. 1 \in 1..Len(o) + 1 /\ p \in 1 - 1..Len(o)
    BY <1>1
  <2> QED
    BY <1>1, <2>1, Piece
<1>5. Ahead(o, <<>>, h) = SubSeq(o, 1, p)
  <2>1. Put(o, <<>>).out = <<>> /\ Put(o, <<>>).next = 1
    BY PutNone
  <2>2. (p + 1) - 1 = p
    BY <1>1
  <2>3. Ahead(o, <<>>, h) = <<>> \o SubSeq(o, 1, p)
    BY <1>3, <2>1, <2>2 DEF Ahead
  <2> QED
    BY <1>4, <2>3, ConcatEmptySeq DEF LineSeq
<1>6. h.old_start + Len(h.removed) = l + 1 /\ h.old_start + Len(h.removed) - 1 = l
  BY <1>1, <1>3
<1>7. NamesLines(o, h)
  BY <1>1, <1>3, <1>6 DEF NamesLines
<1>8. SubSeq(w, 1, p) \o SubSeq(w, p + 1, m) = SubSeq(w, 1, m)
  <2>1. 1 \in 1..Len(w) + 1 /\ p \in 1 - 1..Len(w) /\ m \in p..Len(w)
    BY <1>1, <1>2
  <2> QED
    BY <1>1, <2>1, ConcatAdjacentSubSeq DEF LineSeq
<1>9. Ahead(o, <<>>, h) \o h.added = SubSeq(w, 1, m)
  BY <1>1, <1>3, <1>5, <1>8
<1>10. <<>> \in Seq(Hunks) /\ Neat(o, <<>>)
  <2>1. Len(<<>>) = 0 /\ <<>> \in Seq(Hunks) /\ DOMAIN <<>> = {} /\ 1..0 - 1 = {}
    BY EmptySeq
  <2> QED
    BY <2>1 DEF Neat
<1> HIDE DEF l, m
<1>11. Opened(o, w, <<>>, h, l, m)
  BY <1>1, <1>2, <1>3, <1>4, <1>5, <1>6, <1>7, <1>9, <1>10, IsOpened
<1>12. Append(<<>>, h) = <<h>>
  OBVIOUS
<1> QED
  BY <1>11, <1>12 DEF Opened, h, l, m

\* Hunks that turn all that was not trimmed turn the whole text.
LEMMA TurnsAll ==
  ASSUME NEW o, NEW w, NEW p, NEW b, NEW a, IsTrimmed(o, w, p, b, a), NEW hs, Turns(o, w, hs, p + Len(b), p + Len(a))
  PROVE  Patched(o, hs) = w /\ Neat(o, hs)
<1> DEFINE l == p + Len(b)
           m == p + Len(a)
           out == Put(o, hs).out
           next == Put(o, hs).next
<1>1. /\ Len(o) \in Nat /\ Len(w) \in Nat /\ Len(b) \in Nat /\ Len(a) \in Nat
      /\ o \in LineSeq /\ w \in LineSeq
      /\ p \in Nat /\ l <= Len(o) /\ m <= Len(w)
      /\ SubSeq(o, l + 1, Len(o)) = SubSeq(w, m + 1, Len(w))
  BY TrimmedLines DEF IsTrimmed
<1>2. l \in Nat /\ m \in Nat
  BY <1>1
<1>3. Neat(o, hs) /\ out \in LineSeq /\ next \in 1..l + 1 /\ out \o SubSeq(o, next, l) = SubSeq(w, 1, m)
  BY DEF Turns
<1>4. Patched(o, hs) = out \o SubSeq(o, next, Len(o))
  BY PatchedIs
<1> HIDE DEF out, next, l, m
<1>5. SubSeq(o, next, l) \o SubSeq(o, l + 1, Len(o)) = SubSeq(o, next, Len(o))
  <2>1. next \in 1..Len(o) + 1 /\ l \in next - 1..Len(o) /\ Len(o) \in l..Len(o)
    BY <1>1, <1>2, <1>3
  <2> QED
    BY <1>1, <2>1, ConcatAdjacentSubSeq DEF LineSeq
<1>6. SubSeq(o, next, l) \in LineSeq /\ SubSeq(o, l + 1, Len(o)) \in LineSeq
  <2>1. next \in 1..Len(o) + 1 /\ l \in next - 1..Len(o)
    BY <1>1, <1>2, <1>3
  <2>2. l + 1 \in 1..Len(o) + 1 /\ Len(o) \in (l + 1) - 1..Len(o)
    BY <1>1, <1>2
  <2> QED
    BY <1>1, <2>1, <2>2, Piece
<1>7. out \o (SubSeq(o, next, l) \o SubSeq(o, l + 1, Len(o)))
      = (out \o SubSeq(o, next, l)) \o SubSeq(o, l + 1, Len(o))
  BY <1>3, <1>6, Associative
<1>8. SubSeq(w, 1, m) \o SubSeq(w, m + 1, Len(w)) = w
  <2>1. 1 \in 1..Len(w) + 1 /\ m \in 1 - 1..Len(w) /\ Len(w) \in m..Len(w)
    BY <1>1, <1>2
  <2>2. SubSeq(w, 1, m) \o SubSeq(w, m + 1, Len(w)) = SubSeq(w, 1, Len(w))
    BY <1>1, <2>1, ConcatAdjacentSubSeq DEF LineSeq
  <2> QED
    BY <1>1, <2>2, SubSeqFull DEF LineSeq
<1> QED
  BY <1>1, <1>3, <1>4, <1>5, <1>7, <1>8

-----------------------------------------------------------------------------
(* Trimming.                                                               *)

LEMMA CommonPrefixIs ==
  ASSUME NEW a \in LineSeq, NEW b \in LineSeq
  PROVE  /\ CommonPrefix(a, b) \in Nat /\ CommonPrefix(a, b) <= Len(a) /\ CommonPrefix(a, b) <= Len(b)
         /\ SubSeq(a, 1, CommonPrefix(a, b)) = SubSeq(b, 1, CommonPrefix(a, b))
<1> DEFINE m == Min({Len(a), Len(b)})
           S == {n \in 0..m : SubSeq(a, 1, n) = SubSeq(b, 1, n)}
<1>1. Len(a) \in Nat /\ Len(b) \in Nat
  BY LenProperties DEF LineSeq
<1>2. m \in Nat /\ m <= Len(a) /\ m <= Len(b)
  BY <1>1, LesserOfTwo
<1> HIDE DEF m
<1>3. 0 \in S
  <2>1. SubSeq(a, 1, 0) = <<>> /\ SubSeq(b, 1, 0) = <<>>
    BY SubSeqEmpty
  <2> QED
    BY <1>2, <2>1
<1>4. S \in SUBSET (0..m)
  OBVIOUS
<1>5. Max(S) \in S
  <2> HIDE DEF S
  <2> QED
    BY <1>2, <1>3, <1>4, GreatestNatural
<1>6. CommonPrefix(a, b) = Max(S)
  BY DEF CommonPrefix, m
<1>7. Max(S) \in 0..m /\ SubSeq(a, 1, Max(S)) = SubSeq(b, 1, Max(S))
  BY <1>5
<1> HIDE DEF S
<1> QED
  BY <1>1, <1>2, <1>6, <1>7

LEMMA CommonSuffixIs ==
  ASSUME NEW a \in LineSeq, NEW b \in LineSeq, NEW s \in Nat, s <= Len(a), s <= Len(b)
  PROVE  /\ CommonSuffix(a, b, s) \in Nat
         /\ s + CommonSuffix(a, b, s) <= Len(a) /\ s + CommonSuffix(a, b, s) <= Len(b)
         /\ Tails(a, CommonSuffix(a, b, s)) = Tails(b, CommonSuffix(a, b, s))
<1> DEFINE m == Min({Len(a), Len(b)}) - s
           S == {n \in 0..m : Tails(a, n) = Tails(b, n)}
<1>1. Len(a) \in Nat /\ Len(b) \in Nat
  BY LenProperties DEF LineSeq
<1>2. m \in Nat /\ s + m <= Len(a) /\ s + m <= Len(b)
  BY <1>1, LesserOfTwo
<1> HIDE DEF m
<1>3. 0 \in S
  <2>1. Tails(a, 0) = <<>> /\ Tails(b, 0) = <<>>
    BY <1>1, SubSeqEmpty DEF Tails
  <2> QED
    BY <1>2, <2>1
<1>4. S \in SUBSET (0..m)
  OBVIOUS
<1>5. Max(S) \in S
  <2> HIDE DEF S
  <2> QED
    BY <1>2, <1>3, <1>4, GreatestNatural
<1>6. CommonSuffix(a, b, s) = Max(S)
  BY DEF CommonSuffix, m
<1> QED
  BY <1>1, <1>2, <1>5, <1>6

LEMMA TrimmingIs ==
  ASSUME NEW o \in LineSeq, NEW w \in LineSeq
  PROVE  LET p == CommonPrefix(o, w)
             end == CommonSuffix(o, w, p)
             b == SubSeq(o, p + 1, Len(o) - end)
             a == SubSeq(w, p + 1, Len(w) - end)
         IN IsTrimmed(o, w, p, b, a)
<1> DEFINE p == CommonPrefix(o, w)
           end == CommonSuffix(o, w, p)
           b == SubSeq(o, p + 1, Len(o) - end)
           a == SubSeq(w, p + 1, Len(w) - end)
<1>1. Len(o) \in Nat /\ Len(w) \in Nat
  BY LenProperties DEF LineSeq
<1>2. p \in Nat /\ p <= Len(o) /\ p <= Len(w) /\ SubSeq(o, 1, p) = SubSeq(w, 1, p)
  BY CommonPrefixIs
<1> HIDE DEF p
<1>3. end \in Nat /\ p + end <= Len(o) /\ p + end <= Len(w) /\ Tails(o, end) = Tails(w, end)
  BY <1>2, CommonSuffixIs
<1> HIDE DEF end
<1>4. b \in LineSeq /\ Len(b) = (Len(o) - end) - p
  <2>1. p + 1 \in 1..Len(o) + 1 /\ Len(o) - end \in (p + 1) - 1..Len(o) /\ (Len(o) - end) - (p + 1) + 1 = (Len(o) - end) - p
    BY <1>1, <1>2, <1>3
  <2> QED
    BY <2>1, Piece
<1>5. a \in LineSeq /\ Len(a) = (Len(w) - end) - p
  <2>1. p + 1 \in 1..Len(w) + 1 /\ Len(w) - end \in (p + 1) - 1..Len(w) /\ (Len(w) - end) - (p + 1) + 1 = (Len(w) - end) - p
    BY <1>1, <1>2, <1>3
  <2> QED
    BY <2>1, Piece
<1>6. p + Len(b) = Len(o) - end /\ p + Len(a) = Len(w) - end
  <2> HIDE DEF a, b
  <2> QED
    BY <1>1, <1>2, <1>3, <1>4, <1>5
<1>7. b = SubSeq(o, p + 1, p + Len(b)) /\ a = SubSeq(w, p + 1, p + Len(a))
  BY <1>6
<1>8. SubSeq(o, p + Len(b) + 1, Len(o)) = SubSeq(w, p + Len(a) + 1, Len(w))
  <2> HIDE DEF a, b
  <2> QED
    BY <1>3, <1>6 DEF Tails
<1> HIDE DEF a, b
<1>9. p + Len(b) <= Len(o) /\ p + Len(a) <= Len(w)
  BY <1>1, <1>3, <1>6
<1>10. IsTrimmed(o, w, p, b, a)
  BY <1>2, <1>4, <1>5, <1>7, <1>8, <1>9 DEF IsTrimmed
<1> QED
  BY <1>10 DEF p, end, a, b

\* The texts are the same to the last line, or not.
LEMMA NoHunk ==
  ASSUME NEW o \in LineSeq
  PROVE  Patched(o, <<>>) = o /\ Neat(o, <<>>)
<1>1. SubSeq(o, 1, Len(o)) = o
  BY SubSeqFull DEF LineSeq
<1>2. Put(o, <<>>).out = <<>> /\ Put(o, <<>>).next = 1
  BY PutNone
<1>3. Patched(o, <<>>) = <<>> \o o
  BY <1>1, <1>2, PatchedIs
<1>4. <<>> \o o = o
  BY ConcatEmptySeq DEF LineSeq
<1>5. Len(<<>>) = 0 /\ <<>> \in Seq(Hunks) /\ DOMAIN <<>> = {} /\ 1..0 - 1 = {}
  BY EmptySeq
<1>6. Neat(o, <<>>)
  BY <1>5 DEF Neat
<1> QED
  BY <1>3, <1>4, <1>6

-----------------------------------------------------------------------------
(* The invariant.                                                          *)

Span == -(Limit + 1)..Limit + 1
FrontierSet == [Span -> Int]

\* While the search goes on.
Searching ==
  /\ trace \in Seq(FrontierSet) /\ frontier \in FrontierSet
  /\ distance \in Nat /\ Len(trace) = distance
  /\ distance = 0 => frontier = [k \in Span |-> 0]
  /\ distance > 0 => frontier = trace[distance]
  /\ Frontiers(before, after, trace, distance)
  /\ \A d \in 0..distance - 1 : NotEnded(before, after, trace[d + 1], d)
  /\ edits = <<>>

\* When it has ended.
FoundAt ==
  /\ trace \in Seq(FrontierSet) /\ Len(trace) \in Nat \ {0}
  /\ Frontiers(before, after, trace, Len(trace))
  /\ EditDistance(before, after) = Len(trace) - 1

\* The edits found lead from (u, v) to the ends, with all but d of the changes.
LeadsOn(u, v, d) ==
  /\ edits \in Script
  /\ Path(before, after, edits, <<u, v>>, <<Len(before), Len(after)>>)
  /\ Cardinality(Changes(edits)) + d = Len(trace) - 1

Backing ==
  /\ distance \in 0..Len(trace) - 1 /\ x \in 0..Len(before) /\ y \in 0..Len(after)
  /\ x - y \in Diagonals(distance) /\ trace[distance + 1][x - y] = x
  /\ LeadsOn(x, y, distance)

\* What holds at each stage.
DiffInv ==
  /\ old \in LineSeq /\ new \in LineSeq /\ Len(old) <= MaxLines
  /\ before \in LineSeq /\ after \in LineSeq /\ prefix \in 0..MaxLines
  /\ stage \in {"trim", "search", "back", "group", "done"}
  /\ trace # <<>> => Len(trace) * Width <= MaxTrace
  /\ stage = "trim" => trace = <<>> /\ edits = <<>> /\ distance = 0
  /\ stage \in {"search", "back", "group"} => Trimmed /\ before # <<>> /\ after # <<>>
  /\ stage = "search" => Searching
  /\ stage \in {"back", "group"} => FoundAt
  /\ stage = "back" => Backing
  /\ stage = "group" => LeadsOn(0, 0, 0)
  /\ stage = "done" => Patched(old, hunks) = new /\ Neat(old, hunks)

LEMMA TextsAre ==
  ASSUME NEW t \in Texts
  PROVE  t \in LineSeq /\ Len(t) <= MaxLines
<1>1. PICK m \in 0..MaxLines : t \in [1..m -> Lines]
  BY DEF Texts, BoundedSeq, SeqOf
<1>2. m \in Nat
  BY LineDiffAssumption
<1>3. t \in Seq(Lines)
  BY <1>1, <1>2, SeqDef
<1>4. DOMAIN t = 1..m /\ DOMAIN t = 1..Len(t) /\ Len(t) \in Nat
  BY <1>1, <1>3, LenProperties
<1>5. Len(t) = m
  BY <1>2, <1>4
<1> QED
  BY <1>1, <1>3, <1>5, LineDiffAssumption DEF LineSeq

LEMMA DiffStarts == DiffInit => DiffInv
<1> SUFFICES ASSUME DiffInit PROVE DiffInv
  OBVIOUS
<1>1. old \in Texts /\ new \in Texts
  BY DEF DiffInit
<1>2. old \in LineSeq /\ new \in LineSeq /\ Len(old) <= MaxLines
  BY <1>1, TextsAre
<1>3. <<>> \in LineSeq
  BY EmptySeq DEF LineSeq
<1>4. 0 \in 0..MaxLines
  BY LineDiffAssumption
<1>5. /\ stage = "trim" /\ prefix = 0 /\ before = <<>> /\ after = <<>>
      /\ trace = <<>> /\ edits = <<>> /\ distance = 0
  BY DEF DiffInit
<1> QED
  BY <1>2, <1>3, <1>4, <1>5 DEF DiffInv

LEMMA TrimStep == ASSUME DiffInv, Trim PROVE DiffInv'
<1> DEFINE start == CommonPrefix(old, new)
           end == CommonSuffix(old, new, start)
           a == SubSeq(old, start + 1, Len(old) - end)
           b == SubSeq(new, start + 1, Len(new) - end)
           top == Len(a) + Len(b) + 1
<1>1. /\ old \in LineSeq /\ new \in LineSeq /\ Len(old) <= MaxLines /\ Len(old) \in Nat
      /\ trace = <<>> /\ edits = <<>> /\ distance = 0
  <2>1. stage = "trim"
    BY DEF Trim
  <2>2. Len(old) \in Nat
    BY LenProperties DEF DiffInv, LineSeq
  <2> QED
    BY <2>1, <2>2 DEF DiffInv
<1>2. IsTrimmed(old, new, start, a, b)
  BY <1>1, TrimmingIs
<1>3. start \in 0..MaxLines
  <2>1. start \in Nat /\ start <= Len(old)
    BY <1>1, CommonPrefixIs
  <2> HIDE DEF start
  <2> QED
    BY <1>1, <2>1, LineDiffAssumption
<1>4. /\ prefix' = start /\ before' = a /\ after' = b
      /\ old' = old /\ new' = new /\ distance' = 0 /\ trace' = <<>> /\ edits' = <<>>
  BY <1>1 DEF Trim, input
<1>5. a = <<>> \/ b = <<>> =>
        stage' = "done" /\ hunks' = IF old = new THEN <<>> ELSE <<Hunk(start + 1, a, b)>>
  BY DEF Trim
<1>6. ~(a = <<>> \/ b = <<>>) => stage' = "search" /\ frontier' = [k \in -top..top |-> 0]
  BY DEF Trim
<1> HIDE DEF start, end, a, b
<1>7. /\ old' \in LineSeq /\ new' \in LineSeq /\ Len(old') <= MaxLines
      /\ before' \in LineSeq /\ after' \in LineSeq /\ prefix' \in 0..MaxLines
      /\ trace' # <<>> => Len(trace') * Width' <= MaxTrace
  BY <1>1, <1>2, <1>3, <1>4 DEF IsTrimmed
<1>8. CASE a = <<>> \/ b = <<>>
  <2>1. CASE old = new
    <3>1. hunks' = <<>>
      BY <1>5, <1>8, <2>1
    <3>2. Patched(old', hunks') = new' /\ Neat(old', hunks')
      BY <1>1, <1>4, <2>1, <3>1, NoHunk
    <3> QED
      BY <1>5, <1>7, <1>8, <3>2 DEF DiffInv
  <2>2. CASE old # new
    <3>1. hunks' = <<Hunk(start + 1, a, b)>>
      BY <1>5, <1>8, <2>2
    <3>2. Turns(old, new, <<Hunk(start + 1, a, b)>>, start + Len(a), start + Len(b))
      BY <1>2, OneHunk
    <3>3. Patched(old', hunks') = new' /\ Neat(old', hunks')
      BY <1>2, <1>4, <3>1, <3>2, TurnsAll
    <3> QED
      BY <1>5, <1>7, <1>8, <3>3 DEF DiffInv
  <2> QED
    BY <2>1, <2>2
<1>9. CASE ~(a = <<>> \/ b = <<>>)
  <2>1. stage' = "search" /\ frontier' = [k \in -top..top |-> 0] /\ before' # <<>> /\ after' # <<>>
    BY <1>4, <1>6, <1>9
  <2>2. Trimmed'
    BY <1>2, <1>4 DEF Trimmed
  <2>3. Span' = -top..top
    BY <1>4 DEF Span, Limit
  <2> HIDE DEF top
  <2>4. frontier' = [k \in Span' |-> 0] /\ frontier' \in FrontierSet'
    BY <2>1, <2>3 DEF FrontierSet
  <2>5. Len(<<>>) = 0 /\ 0..0 - 1 = {} /\ 1..0 - 1 = {}
    OBVIOUS
  <2>6. Frontiers(before', after', trace', distance')
    BY <1>4, <2>5 DEF Frontiers
  <2>7. trace' \in Seq(FrontierSet')
    BY <1>4, EmptySeq
  <2>8. Searching'
    BY <1>4, <2>4, <2>5, <2>6, <2>7 DEF Searching
  <2> QED
    BY <1>7, <2>1, <2>2, <2>8 DEF DiffInv
<1> QED
  BY <1>8, <1>9

LEMMA NoDistance == ASSUME NEW d \in Nat, d <= 0 PROVE d = -d
  OBVIOUS

\* What one distance of the search finds.
LEMMA ReachedIs ==
  ASSUME before \in LineSeq, after \in LineSeq, Searching, distance <= Limit
  PROVE  LET reached == Reached(frontier, distance)
             tr == Append(trace, reached)
         IN /\ reached \in FrontierSet
            /\ tr \in Seq(FrontierSet) /\ Len(tr) = distance + 1 /\ tr[distance + 1] = reached
            /\ \A d \in 0..distance - 1 : tr[d + 1] = trace[d + 1]
            /\ Frontiers(before, after, tr, distance + 1)
<1> DEFINE d0 == distance
           f == frontier
           r == Reached(f, d0)
           tr == Append(trace, r)
<1>1. Len(before) \in Nat /\ Len(after) \in Nat /\ Limit \in Nat
  <2>1. Len(before) \in Nat /\ Len(after) \in Nat
    BY LenProperties DEF LineSeq
  <2> QED
    BY <2>1 DEF Limit
<1>2. /\ trace \in Seq(FrontierSet) /\ f \in FrontierSet /\ d0 \in Nat /\ Len(trace) = d0
      /\ d0 = 0 => f = [k \in Span |-> 0]
      /\ d0 > 0 => f = trace[d0]
      /\ Frontiers(before, after, trace, d0)
  BY DEF Searching
<1>3. DOMAIN f = Span /\ \A k \in Span : f[k] \in Int
  BY <1>2 DEF FrontierSet
<1>4. \A k \in Diagonals(d0) : k \in Span /\ k \in Int
  <2>1. \A k \in Diagonals(d0) : k \in -d0..d0
    BY <1>2, DiagonalsAre
  <2>2. d0 <= Limit
    OBVIOUS
  <2> HIDE DEF d0
  <2> QED
    BY <1>1, <1>2, <2>1, <2>2 DEF Span
<1>5. \A k \in Diagonals(d0) : r[k] = Furthest(f, d0, k)
  BY <1>3, <1>4 DEF Reached
<1>6. ASSUME NEW k \in Diagonals(d0)
      PROVE  Comes(f, d0, k) \in Nat /\ Comes(f, d0, k) - k \in Nat /\ (d0 = 0 => Comes(f, d0, k) = 0)
  <2>1. CASE d0 = 0
    <3>1. k = 0 /\ 1 \in Span
      <4>1. 1 \in Span
        BY <1>1 DEF Span
      <4> QED
        BY <2>1, <4>1, DiagonalsAre
    <3>2. Origin(f, d0, k) = k + 1
      <4>1. k = -d0
        <5>1. d0 \in Nat /\ d0 <= 0 /\ k = d0
          BY <1>2, <2>1, <3>1
        <5> HIDE DEF d0
        <5> QED
          BY ONLY <5>1, NoDistance
      <4> HIDE DEF d0
      <4> QED
        BY <4>1 DEF Origin
    <3>3. f[k + 1] = 0
      BY <1>2, <2>1, <3>1
    <3> QED
      BY <3>1, <3>2, <3>3 DEF Comes
  <2>2. CASE d0 > 0
    <3> DEFINE e == d0 - 1
    <3>1. e \in Nat /\ e + 1 = d0 /\ e \in 0..d0 - 1
      BY <1>2, <2>2
    <3>2. Right(trace[e + 1], e)
      BY <1>2, <3>1, Reaches
    <3>3. Right(f, e) /\ k \in Diagonals(e + 1)
      BY <1>2, <2>2, <3>1, <3>2
    <3> HIDE DEF e
    <3>4. Comes(f, e + 1, k) \in Nat /\ Comes(f, e + 1, k) - k \in Nat
      BY <3>1, <3>3, ComesRight
    <3> QED
      BY <2>2, <3>1, <3>4
  <2> QED
    BY <1>2, <2>1, <2>2
<1>7. ASSUME NEW k \in Diagonals(d0)
      PROVE  r[k] \in Int /\ Furthers(before, after, Comes(f, d0, k), Comes(f, d0, k) - k, r[k])
  <2>1. k \in Int
    BY <1>4
  <2>2. /\ Furthest(f, d0, k) \in Int
        /\ Furthers(before, after, Comes(f, d0, k), Comes(f, d0, k) - k, Furthest(f, d0, k))
    BY <1>6, <2>1, FurthestIs
  <2> QED
    BY <1>5, <2>2
<1>8. r \in FrontierSet
  <2>1. r = [k \in Span |-> IF k \in Diagonals(d0) THEN Furthest(f, d0, k) ELSE f[k]]
    BY <1>3 DEF Reached
  <2>2. \A k \in Span : (IF k \in Diagonals(d0) THEN Furthest(f, d0, k) ELSE f[k]) \in Int
    <3>1. \A k \in Diagonals(d0) : Furthest(f, d0, k) \in Int
      BY <1>5, <1>7
    <3> QED
      BY <1>3, <3>1
  <2> HIDE DEF r
  <2> QED
    BY <2>1, <2>2 DEF FrontierSet
<1> HIDE DEF r
<1>9. /\ tr \in Seq(FrontierSet) /\ Len(tr) = d0 + 1 /\ tr[d0 + 1] = r
      /\ \A i \in 1..d0 : tr[i] = trace[i]
  BY <1>2, <1>8, AppendProperties
<1> HIDE DEF tr
<1>10. \A d \in 0..d0 - 1 : tr[d + 1] = trace[d + 1]
  <2>1. \A d \in 0..d0 - 1 : d + 1 \in 1..d0
    BY <1>2
  <2> QED
    BY <1>9, <2>1
<1>11. Furthers(before, after, 0, 0, tr[1][0])
  <2>1. CASE d0 = 0
    <3>1. 0 \in Diagonals(d0) /\ tr[1] = r
      BY <1>9, <2>1, DiagonalsAre
    <3>2. Comes(f, d0, 0) = 0 /\ Comes(f, d0, 0) - 0 = 0
      BY <1>6, <2>1, <3>1
    <3> QED
      BY <1>7, <3>1, <3>2
  <2>2. CASE d0 > 0
    <3>1. tr[1] = trace[1]
      <4>1. 1 \in 1..d0
        BY <1>2, <2>2
      <4> QED
        BY <1>9, <4>1
    <3>2. Furthers(before, after, 0, 0, trace[1][0])
      BY <1>2, <2>2 DEF Frontiers
    <3> QED
      BY <3>1, <3>2
  <2> QED
    BY <1>2, <2>1, <2>2
<1>12. ASSUME NEW d \in 1..(d0 + 1) - 1, NEW k \in Diagonals(d)
       PROVE  Furthers(before, after, Comes(tr[d], d, k), Comes(tr[d], d, k) - k, tr[d + 1][k])
  <2>1. CASE d = d0
    <3>1. tr[d] = f
      <4>1. d0 \in 1..d0 /\ d0 > 0
        BY <1>2, <2>1
      <4> QED
        BY <1>2, <1>9, <2>1, <4>1
    <3>2. tr[d + 1][k] = r[k]
      BY <1>9, <2>1
    <3>3. k \in Diagonals(d0)
      BY <2>1
    <3> QED
      BY <1>7, <2>1, <3>1, <3>2, <3>3
  <2>2. CASE d # d0
    <3>1. d \in 1..d0 - 1 /\ d \in 1..d0 /\ d + 1 \in 1..d0
      BY <1>2, <2>2
    <3>2. tr[d] = trace[d] /\ tr[d + 1] = trace[d + 1]
      BY <1>9, <3>1
    <3>3. Furthers(before, after, Comes(trace[d], d, k), Comes(trace[d], d, k) - k, trace[d + 1][k])
      BY <1>2, <3>1 DEF Frontiers
    <3> QED
      BY <3>2, <3>3
  <2> QED
    BY <2>1, <2>2
<1>13. Frontiers(before, after, tr, d0 + 1)
  BY <1>11, <1>12 DEF Frontiers
<1> QED
  BY <1>8, <1>9, <1>10, <1>13 DEF r, tr

LEMMA SearchStep == ASSUME DiffInv, Search PROVE DiffInv'
<1> DEFINE r == Reached(frontier, distance)
           tr == Append(trace, r)
           ended == \E k \in Diagonals(distance) : r[k] >= Len(before) /\ r[k] - k >= Len(after)
<1>1. stage = "search" /\ WithinBudget
  BY DEF Search
<1>2. /\ old \in LineSeq /\ new \in LineSeq /\ Len(old) <= MaxLines
      /\ before \in LineSeq /\ after \in LineSeq /\ prefix \in 0..MaxLines
      /\ Trimmed /\ before # <<>> /\ after # <<>> /\ Searching
  BY <1>1 DEF DiffInv
<1>3. distance <= Limit /\ (Len(trace) + 1) * Width <= MaxTrace
  BY <1>1 DEF WithinBudget
<1>4. /\ frontier' = r /\ trace' = tr
      /\ ended => stage' = "back" /\ x' = Len(before) /\ y' = Len(after) /\ distance' = distance
      /\ ~ended => distance' = distance + 1 /\ stage' = stage
      /\ old' = old /\ new' = new /\ prefix' = prefix /\ before' = before /\ after' = after /\ edits' = edits
  BY DEF Search, input, middle
<1>5. /\ r \in FrontierSet
      /\ tr \in Seq(FrontierSet) /\ Len(tr) = distance + 1 /\ tr[distance + 1] = r
      /\ \A d \in 0..distance - 1 : tr[d + 1] = trace[d + 1]
      /\ Frontiers(before, after, tr, distance + 1)
  BY <1>2, <1>3, ReachedIs
<1>6. distance \in Nat /\ Len(trace) = distance /\ edits = <<>>
      /\ \A d \in 0..distance - 1 : NotEnded(before, after, trace[d + 1], d)
  BY <1>2 DEF Searching
<1>7. \A d \in 0..distance - 1 : NotEnded(before, after, tr[d + 1], d)
  BY <1>5, <1>6
<1>8. ended <=> ~NotEnded(before, after, tr[distance + 1], distance)
  BY <1>5 DEF NotEnded
<1> HIDE DEF r, tr, ended
<1>9. Width' = Width /\ Span' = Span /\ FrontierSet' = FrontierSet /\ Trimmed'
  BY <1>2, <1>4 DEF Width, Span, FrontierSet, Limit, Trimmed
<1>10. /\ old' \in LineSeq /\ new' \in LineSeq /\ Len(old') <= MaxLines
       /\ before' \in LineSeq /\ after' \in LineSeq /\ prefix' \in 0..MaxLines
       /\ trace' # <<>> => Len(trace') * Width' <= MaxTrace
       /\ before' # <<>> /\ after' # <<>>
  BY <1>2, <1>3, <1>4, <1>5, <1>6, <1>9
<1>11. CASE ~ended
  <2>1. \A d \in 0..(distance + 1) - 1 : NotEnded(before, after, tr[d + 1], d)
    <3>1. \A d \in 0..(distance + 1) - 1 : d \in 0..distance - 1 \/ d = distance
      BY <1>6
    <3> QED
      BY <1>7, <1>8, <1>11, <3>1
  <2>2. distance + 1 \in Nat /\ distance + 1 > 0
    BY <1>6
  <2>3. Searching'
    BY <1>4, <1>5, <1>6, <1>9, <1>11, <2>1, <2>2 DEF Searching
  <2> QED
    BY <1>1, <1>4, <1>9, <1>10, <1>11, <2>3 DEF DiffInv
<1>12. CASE ended
  <2> DEFINE n == distance + 1
             k == Len(before) - Len(after)
  <2>1. n \in Nat /\ n > 0 /\ n - 1 = distance /\ n - 2 = distance - 1
    BY <1>6
  <2>2. \A d \in 0..n - 2 : NotEnded(before, after, tr[d + 1], d)
    BY <1>7, <2>1
  <2>3. ~NotEnded(before, after, tr[n], n - 1)
    BY <1>8, <1>12, <2>1
  <2>4. Frontiers(before, after, tr, n)
    BY <1>5
  <2> HIDE DEF n
  <2>5. EditDistance(before, after) = n - 1
    BY <1>2, <2>1, <2>2, <2>3, <2>4, DistanceFound
  <2>6. k \in Diagonals(n - 1) /\ tr[n][k] = Len(before)
    BY <1>2, <2>1, <2>2, <2>3, <2>4, EndIsEnd
  <2>7. FoundAt'
    <3>1. Len(tr) = n
      BY <1>5 DEF n
    <3> QED
      BY <1>4, <1>5, <1>9, <2>1, <2>4, <2>5, <3>1 DEF FoundAt
  <2>8. Len(before) \in Nat /\ Len(after) \in Nat
    BY <1>2, LenProperties DEF LineSeq
  <2>9. LeadsOn(x, y, distance)'
    <3>1. <<Len(before), Len(after)>> \in Cells(before, after)
      BY <2>8 DEF Cells
    <3>2. Path(before, after, <<>>, <<Len(before), Len(after)>>, <<Len(before), Len(after)>>)
      BY <3>1, NoPath
    <3>3. <<>> \in Script /\ Cardinality(Changes(<<>>)) = 0
      <4>1. <<>> \in Script /\ DOMAIN <<>> = {}
        BY EmptySeq DEF Script
      <4>2. Changes(<<>>) = {}
        BY <4>1 DEF Changes
      <4> QED
        BY <4>1, <4>2, FS_EmptySet
    <3>4. 0 + distance = Len(tr) - 1
      BY <1>5, <1>6
    <3> QED
      BY <1>4, <1>6, <1>12, <3>2, <3>3, <3>4 DEF LeadsOn
  <2>10. Backing'
    <3>1. distance \in 0..Len(tr) - 1
      BY <1>5, <1>6
    <3>2. Len(before) \in 0..Len(before) /\ Len(after) \in 0..Len(after)
      BY <2>8
    <3>3. k \in Diagonals(distance) /\ tr[distance + 1][k] = Len(before)
      BY <2>1, <2>6 DEF n
    <3> QED
      BY <1>4, <1>12, <2>9, <3>1, <3>2, <3>3 DEF Backing
  <2> QED
    BY <1>4, <1>9, <1>10, <1>12, <2>7, <2>10 DEF DiffInv
<1> QED
  BY <1>11, <1>12

LEMMA GiveUpStep == ASSUME DiffInv, GiveUp PROVE DiffInv'
<1>1. stage = "search" /\ stage' = "done" /\ hunks' = <<Hunk(prefix + 1, before, after)>>
      /\ old' = old /\ new' = new /\ prefix' = prefix /\ before' = before /\ after' = after
      /\ trace' = trace
  BY DEF GiveUp, input, middle, search
<1>2. /\ old \in LineSeq /\ new \in LineSeq /\ Len(old) <= MaxLines
      /\ before \in LineSeq /\ after \in LineSeq /\ prefix \in 0..MaxLines
      /\ trace # <<>> => Len(trace) * Width <= MaxTrace
      /\ IsTrimmed(old, new, prefix, before, after)
  BY <1>1 DEF DiffInv, Trimmed
<1>3. Turns(old, new, <<Hunk(prefix + 1, before, after)>>, prefix + Len(before), prefix + Len(after))
  BY <1>2, OneHunk
<1>4. Patched(old, hunks') = new /\ Neat(old, hunks')
  BY <1>1, <1>2, <1>3, TurnsAll
<1>5. Width' = Width
  BY <1>1 DEF Width, Limit
<1> QED
  BY <1>1, <1>2, <1>4, <1>5 DEF DiffInv

\* One change and the equal lines that follow it, in front of the edits found.
LEMMA LeadsFurther ==
  ASSUME before \in LineSeq, after \in LineSeq, NEW e \in Edits, e.kind # "equal",
         NEW p \in Cells(before, after), NEW u \in Nat, NEW v \in Nat, NEW s \in Nat,
         u + s <= Len(before), v + s <= Len(after), SameLines(before, after, u, v, s),
         EditAt(before, after, e, p, <<u, v>>), NEW d \in Nat, LeadsOn(u + s, v + s, d + 1),
         Len(trace) \in Nat
  PROVE  LET es == <<e>> \o Equals(u + 1, u + s) \o edits
         IN /\ es \in Script /\ Path(before, after, es, p, <<Len(before), Len(after)>>)
            /\ Cardinality(Changes(es)) + d = Len(trace) - 1
<1> DEFINE eq == Equals(u + 1, u + s)
           first == <<e>> \o eq
           es == first \o edits
           end == <<Len(before), Len(after)>>
<1>1. Len(before) \in Nat /\ Len(after) \in Nat
  BY LenProperties DEF LineSeq
<1>2. <<u, v>> \in Cells(before, after)
  <2>1. u \in 0..Len(before) /\ v \in 0..Len(after)
    BY <1>1
  <2> QED
    BY <2>1 DEF Cells
<1>3. <<e>> \in Script /\ Cardinality(Changes(<<e>>)) = 1
  BY OneEdit
<1>4. eq \in Script /\ Cardinality(Changes(eq)) = 0
      /\ Path(before, after, eq, <<u, v>>, <<u + s, v + s>>)
  BY PathOfEquals
<1>5. edits \in Script /\ Path(before, after, edits, <<u + s, v + s>>, end)
      /\ Cardinality(Changes(edits)) + (d + 1) = Len(trace) - 1
  BY DEF LeadsOn
<1>6. Path(before, after, <<e>>, p, <<u, v>>)
  BY <1>2, PathOfOne
<1> HIDE DEF eq, end
<1>7. Path(before, after, first, p, <<u + s, v + s>>)
  BY <1>3, <1>4, <1>6, PathJoin
<1>8. Cardinality(Changes(first)) = 1 + 0
  BY <1>3, <1>4, ChangesJoin
<1>9. first \in Script
  BY <1>3, <1>4, ConcatProperties DEF Script
<1> HIDE DEF first
<1>10. Path(before, after, es, p, end)
  BY <1>5, <1>7, <1>9, PathJoin
<1>11. Cardinality(Changes(es)) = 1 + Cardinality(Changes(edits))
  BY <1>5, <1>8, <1>9, ChangesJoin
<1>12. es \in Script
  BY <1>5, <1>9, ConcatProperties DEF Script
<1>13. Cardinality(Changes(edits)) \in Nat
  BY <1>5, ChangesAre
<1> HIDE DEF es
<1>14. Cardinality(Changes(es)) + d = Len(trace) - 1
  BY <1>5, <1>11, <1>13
<1> QED
  BY <1>10, <1>12, <1>14 DEF es, first, eq, end

LEMMA BackStep == ASSUME DiffInv, Back PROVE DiffInv'
<1> DEFINE u == Corner[1]
           v == Corner[2]
           s == x - u
           across == u = From[1]
           e == IF across THEN Edit("insert", after[v]) ELSE Edit("delete", before[u])
           p == <<IF across THEN u ELSE u - 1, IF across THEN v - 1 ELSE v>>
           n == Len(trace)
           d == distance - 1
<1>1. stage = "back" /\ distance > 0
  BY DEF Back
<1>2. /\ old \in LineSeq /\ new \in LineSeq /\ Len(old) <= MaxLines
      /\ before \in LineSeq /\ after \in LineSeq /\ prefix \in 0..MaxLines
      /\ trace # <<>> => Len(trace) * Width <= MaxTrace
      /\ Trimmed /\ before # <<>> /\ after # <<>> /\ FoundAt /\ Backing
  BY <1>1 DEF DiffInv
<1>3. /\ edits' = <<e>> \o Equals(u + 1, x) \o edits
      /\ x' = p[1] /\ y' = p[2] /\ distance' = d
      /\ old' = old /\ new' = new /\ prefix' = prefix /\ before' = before /\ after' = after
      /\ stage' = stage /\ trace' = trace
  BY DEF Back, input, middle, search
<1>4. Len(before) \in Nat /\ Len(after) \in Nat
  BY <1>2, LenProperties DEF LineSeq
<1>5. /\ n \in Nat \ {0} /\ Frontiers(before, after, trace, n)
      /\ distance \in 0..n - 1 /\ x \in 0..Len(before) /\ y \in 0..Len(after)
      /\ x - y \in Diagonals(distance) /\ trace[distance + 1][x - y] = x
      /\ LeadsOn(x, y, distance)
  BY <1>2 DEF FoundAt, Backing
<1> HIDE DEF n
<1>6. distance \in 1..n - 1 /\ d \in Nat /\ d \in 0..n - 1 /\ d + 1 = distance
  BY <1>1, <1>5
<1>7. /\ u \in Nat /\ v \in Nat /\ u <= x /\ v <= y /\ x - u = y - v
      /\ \A i \in 1..x - u : before[u + i] = after[v + i]
      /\ u = From[1] => /\ v >= 1
                        /\ u - (v - 1) \in Diagonals(distance - 1)
                        /\ trace[distance][u - (v - 1)] = u
      /\ u # From[1] => /\ u >= 1
                        /\ (u - 1) - v \in Diagonals(distance - 1)
                        /\ trace[distance][(u - 1) - v] = u - 1
  BY <1>2, <1>5, <1>6, BackIs
<1>8. /\ u \in Nat /\ v \in Nat /\ u <= x /\ v <= y /\ x - u = y - v
      /\ SameLines(before, after, u, v, s)
      /\ across => v >= 1 /\ u - (v - 1) \in Diagonals(d) /\ trace[distance][u - (v - 1)] = u
      /\ ~across => u >= 1 /\ (u - 1) - v \in Diagonals(d) /\ trace[distance][(u - 1) - v] = u - 1
  BY <1>7 DEF SameLines
<1> HIDE DEF u, v, across, d
<1>9. s \in Nat /\ u + s = x /\ v + s = y /\ u + s <= Len(before) /\ v + s <= Len(after)
      /\ x \in Int /\ y \in Int
  BY <1>4, <1>5, <1>8
<1>10. /\ e \in Edits /\ e.kind # "equal" /\ p \in Cells(before, after)
       /\ EditAt(before, after, e, p, <<u, v>>)
       /\ p[1] \in 0..Len(before) /\ p[2] \in 0..Len(after)
       /\ p[1] - p[2] \in Diagonals(d) /\ trace[distance][p[1] - p[2]] = p[1]
  <2>1. CASE across
    <3>1. e = Edit("insert", after[v]) /\ p = <<u, v - 1>>
      BY <2>1
    <3>2. v \in 1..Len(after) /\ u \in 0..Len(before) /\ v - 1 \in 0..Len(after) /\ (v - 1) + 1 = v
      BY <1>4, <1>8, <1>9, <2>1
    <3>3. after[v] \in Lines
      BY <1>2, <3>2, ElementOfSeq DEF LineSeq
    <3>4. e \in Edits /\ e.kind # "equal"
      BY <3>1, <3>3 DEF Edits, Edit
    <3>5. p \in Cells(before, after)
      BY <3>1, <3>2 DEF Cells
    <3>6. EditAt(before, after, e, p, <<u, v>>)
      BY <3>1, <3>2 DEF EditAt
    <3> HIDE DEF e
    <3> QED
      BY <1>8, <2>1, <3>1, <3>2, <3>4, <3>5, <3>6
  <2>2. CASE ~across
    <3>1. e = Edit("delete", before[u]) /\ p = <<u - 1, v>>
      BY <2>2
    <3>2. u \in 1..Len(before) /\ v \in 0..Len(after) /\ u - 1 \in 0..Len(before) /\ (u - 1) + 1 = u
      BY <1>4, <1>8, <1>9, <2>2
    <3>3. before[u] \in Lines
      BY <1>2, <3>2, ElementOfSeq DEF LineSeq
    <3>4. e \in Edits /\ e.kind # "equal"
      BY <3>1, <3>3 DEF Edits, Edit
    <3>5. p \in Cells(before, after)
      BY <3>1, <3>2 DEF Cells
    <3>6. EditAt(before, after, e, p, <<u, v>>)
      BY <3>1, <3>2 DEF EditAt
    <3> HIDE DEF e
    <3> QED
      BY <1>8, <2>2, <3>1, <3>2, <3>4, <3>5, <3>6
  <2> QED
    BY <2>1, <2>2
<1> HIDE DEF e, s
<1>13. p = <<x', y'>>
  BY <1>3
<1> HIDE DEF p
<1>11. LeadsOn(u + s, v + s, d + 1) /\ edits' = <<e>> \o Equals(u + 1, u + s) \o edits
  BY <1>3, <1>5, <1>6, <1>9
<1>12. /\ edits' \in Script
       /\ Path(before, after, edits', p, <<Len(before), Len(after)>>)
       /\ Cardinality(Changes(edits')) + d = Len(trace) - 1
  <2>1. Len(trace) \in Nat
    BY <1>5 DEF n
  <2>0. /\ before \in LineSeq /\ after \in LineSeq /\ e \in Edits /\ e.kind # "equal"
        /\ p \in Cells(before, after) /\ u \in Nat /\ v \in Nat /\ s \in Nat
        /\ u + s <= Len(before) /\ v + s <= Len(after) /\ SameLines(before, after, u, v, s)
        /\ EditAt(before, after, e, p, <<u, v>>) /\ d \in Nat /\ LeadsOn(u + s, v + s, d + 1)
    BY <1>2, <1>6, <1>8, <1>9, <1>10, <1>11
  <2>2. /\ <<e>> \o Equals(u + 1, u + s) \o edits \in Script
        /\ Path(before, after, <<e>> \o Equals(u + 1, u + s) \o edits, p, <<Len(before), Len(after)>>)
        /\ Cardinality(Changes(<<e>> \o Equals(u + 1, u + s) \o edits)) + d = Len(trace) - 1
    BY ONLY SMTT(30), <2>0, <2>1, LeadsFurther
  <2> QED
    BY <1>11, <2>2
<1>14. LeadsOn(x, y, distance)'
  BY <1>3, <1>12, <1>13 DEF LeadsOn
<1>15. Backing'
  <2>1. d \in 0..Len(trace) - 1 /\ d + 1 = distance
    BY <1>6 DEF n
  <2>2. x' \in 0..Len(before) /\ y' \in 0..Len(after) /\ x' - y' \in Diagonals(d)
        /\ trace[d + 1][x' - y'] = x'
    BY <1>3, <1>10, <2>1
  <2> QED
    BY <1>3, <1>14, <2>1, <2>2 DEF Backing
<1>16. /\ Width' = Width /\ Span' = Span /\ FrontierSet' = FrontierSet /\ Trimmed' /\ FoundAt'
  BY <1>2, <1>3 DEF Width, Span, FrontierSet, Limit, Trimmed, FoundAt
<1> QED
  BY <1>1, <1>2, <1>3, <1>15, <1>16 DEF DiffInv

LEMMA BackAtStartStep == ASSUME DiffInv, BackAtStart PROVE DiffInv'
<1> DEFINE n == Min({x, y})
           added == [i \in 1..(y - n) |-> Edit("insert", after[i])]
           removed == [i \in 1..(x - n) |-> Edit("delete", before[i])]
           eq == Equals(x - n + 1, x)
<1>1. stage = "back" /\ distance = 0
  BY DEF BackAtStart
<1>2. /\ old \in LineSeq /\ new \in LineSeq /\ Len(old) <= MaxLines
      /\ before \in LineSeq /\ after \in LineSeq /\ prefix \in 0..MaxLines
      /\ trace # <<>> => Len(trace) * Width <= MaxTrace
      /\ Trimmed /\ before # <<>> /\ after # <<>> /\ FoundAt /\ Backing
  BY <1>1 DEF DiffInv
<1>3. /\ edits' = added \o removed \o eq \o edits
      /\ stage' = "group"
      /\ old' = old /\ new' = new /\ prefix' = prefix /\ before' = before /\ after' = after
      /\ trace' = trace
  BY DEF BackAtStart, input, middle, search
<1>4. Len(before) \in Nat /\ Len(after) \in Nat
  BY <1>2, LenProperties DEF LineSeq
<1>5. /\ Len(trace) \in Nat \ {0} /\ Frontiers(before, after, trace, Len(trace))
      /\ x \in 0..Len(before) /\ y \in 0..Len(after)
      /\ x - y \in Diagonals(0) /\ trace[1][x - y] = x
      /\ LeadsOn(x, y, 0)
  BY <1>1, <1>2 DEF FoundAt, Backing
<1>6. x \in Nat /\ y = x /\ n = x /\ trace[1][0] = x
  <2>1. x \in Nat /\ y \in Nat
    BY <1>4, <1>5
  <2>2. x - y = 0
    BY <1>5, DiagonalsAre
  <2>3. y = x
    BY <2>1, <2>2
  <2>4. n = IF x <= y THEN x ELSE y
    BY <2>1, LesserOfTwo
  <2> HIDE DEF n
  <2> QED
    BY <1>5, <2>1, <2>2, <2>3, <2>4
<1>7. added = <<>> /\ removed = <<>> /\ eq = Equals(1, x)
  <2>1. y - n = 0 /\ x - n = 0 /\ x - n + 1 = 1
    BY <1>6
  <2> HIDE DEF n
  <2>2. \A i \in 1..0 : FALSE
    OBVIOUS
  <2>3. \A f : [i \in 1..0 |-> f[i]] = <<>>
    OBVIOUS
  <2> QED
    BY <2>1, <2>2, <2>3
<1> HIDE DEF added, removed, eq
<1>8. SameLines(before, after, 0, 0, x)
  <2>1. Furthers(before, after, 0, 0, x)
    BY <1>5, <1>6 DEF Frontiers
  <2>2. x - 0 = x
    BY <1>6
  <2> QED
    BY <2>1, <2>2 DEF Furthers, SameLines
<1>9. /\ Equals(0 + 1, 0 + x) \in Script /\ Cardinality(Changes(Equals(0 + 1, 0 + x))) = 0
      /\ Path(before, after, Equals(0 + 1, 0 + x), <<0, 0>>, <<0 + x, 0 + x>>)
  <2>1. 0 \in Nat /\ 0 + x <= Len(before) /\ 0 + x <= Len(after)
    BY <1>4, <1>5, <1>6
  <2> QED
    BY <1>2, <1>6, <1>8, <2>1, PathOfEquals
<1>10. eq \in Script /\ Cardinality(Changes(eq)) = 0 /\ Path(before, after, eq, <<0, 0>>, <<x, y>>)
  <2>1. 0 + 1 = 1 /\ 0 + x = x
    BY <1>6
  <2> QED
    BY <1>6, <1>7, <1>9, <2>1
<1>11. edits \in Script /\ Path(before, after, edits, <<x, y>>, <<Len(before), Len(after)>>)
       /\ Cardinality(Changes(edits)) + 0 = Len(trace) - 1
  BY <1>5 DEF LeadsOn
<1>12. edits' = eq \o edits
  <2>1. <<>> \o <<>> = <<>> /\ <<>> \o eq = eq
    BY <1>10, EmptySeq, ConcatEmptySeq DEF Script
  <2> QED
    BY <1>3, <1>7, <2>1
<1>13. edits' \in Script
  BY <1>10, <1>11, <1>12, ConcatProperties DEF Script
<1>14. Path(before, after, edits', <<0, 0>>, <<Len(before), Len(after)>>)
  BY <1>10, <1>11, <1>12, PathJoin
<1>15. Cardinality(Changes(edits')) + 0 = Len(trace) - 1
  <2>1. Cardinality(Changes(edits')) = 0 + Cardinality(Changes(edits))
    BY <1>10, <1>11, <1>12, ChangesJoin
  <2>2. Cardinality(Changes(edits)) \in Nat
    BY <1>11, ChangesAre
  <2> QED
    BY <1>11, <2>1, <2>2
<1>16. LeadsOn(0, 0, 0)'
  BY <1>3, <1>13, <1>14, <1>15 DEF LeadsOn
<1>17. /\ Width' = Width /\ Span' = Span /\ FrontierSet' = FrontierSet /\ Trimmed' /\ FoundAt'
  BY <1>2, <1>3 DEF Width, Span, FrontierSet, Limit, Trimmed, FoundAt
<1> QED
  BY <1>2, <1>3, <1>16, <1>17 DEF DiffInv

LEMMA GroupStep == ASSUME DiffInv, Group PROVE DiffInv'
<1> DEFINE all == Groups(edits, prefix + 1)[Len(edits)]
<1>1. stage = "group"
  BY DEF Group
<1>2. /\ old \in LineSeq /\ new \in LineSeq /\ Len(old) <= MaxLines
      /\ before \in LineSeq /\ after \in LineSeq /\ prefix \in 0..MaxLines
      /\ trace # <<>> => Len(trace) * Width <= MaxTrace
      /\ Trimmed /\ LeadsOn(0, 0, 0)
  BY <1>1 DEF DiffInv
<1>3. /\ stage' = "done"
      /\ old' = old /\ new' = new /\ prefix' = prefix /\ before' = before /\ after' = after
      /\ trace' = trace
  BY DEF Group, input, middle, search
<1>4. hunks' = all.found \o all.open
  BY DEF Group, Groups, GroupAt
<1>5. edits \in Script /\ Path(before, after, edits, <<0, 0>>, <<Len(before), Len(after)>>)
  BY <1>2 DEF LeadsOn
<1>6. Turns(old, new, all.found \o all.open, prefix + Len(before), prefix + Len(after))
  BY <1>2, <1>5, ScriptGrouped
<1> HIDE DEF all
<1>7. Patched(old, hunks') = new /\ Neat(old, hunks')
  <2>1. IsTrimmed(old, new, prefix, before, after)
    BY <1>2 DEF Trimmed
  <2> QED
    BY <1>4, <1>6, <2>1, TurnsAll
<1>8. Width' = Width
  BY <1>3 DEF Width, Limit
<1> QED
  BY <1>2, <1>3, <1>7, <1>8 DEF DiffInv

LEMMA DiffStutters == ASSUME DiffInv, UNCHANGED diffVars PROVE DiffInv'
<1>1. /\ old' = old /\ new' = new /\ prefix' = prefix /\ before' = before /\ after' = after
      /\ stage' = stage /\ distance' = distance /\ frontier' = frontier /\ trace' = trace
      /\ x' = x /\ y' = y /\ edits' = edits /\ hunks' = hunks
  BY DEF diffVars, input, middle, search
<1>2. Width' = Width /\ Span' = Span /\ FrontierSet' = FrontierSet /\ Trimmed' = Trimmed
  BY <1>1 DEF Width, Span, FrontierSet, Limit, Trimmed
<1>3. Searching' = Searching /\ FoundAt' = FoundAt
  BY <1>1, <1>2 DEF Searching, FoundAt
<1>4. LeadsOn(x, y, distance)' = LeadsOn(x, y, distance) /\ LeadsOn(0, 0, 0)' = LeadsOn(0, 0, 0)
  BY <1>1 DEF LeadsOn
<1>5. Backing' = Backing
  BY <1>1, <1>4 DEF Backing
<1> QED
  BY <1>1, <1>2, <1>3, <1>4, <1>5 DEF DiffInv

LEMMA DiffKeeps == DiffInv /\ [DiffNext]_diffVars => DiffInv'
<1> SUFFICES ASSUME DiffInv, [DiffNext]_diffVars PROVE DiffInv'
  OBVIOUS
<1>1. CASE Trim
  BY <1>1, TrimStep
<1>2. CASE Search
  BY <1>2, SearchStep
<1>3. CASE GiveUp
  BY <1>3, GiveUpStep
<1>4. CASE Back
  BY <1>4, BackStep
<1>5. CASE BackAtStart
  BY <1>5, BackAtStartStep
<1>6. CASE Group
  BY <1>6, GroupStep
<1>7. CASE UNCHANGED diffVars
  BY <1>7, DiffStutters
<1> QED
  BY <1>1, <1>2, <1>3, <1>4, <1>5, <1>6, <1>7 DEF DiffNext

LEMMA DiffHolds == DiffSpec => []DiffInv
<1> QED
  BY DiffStarts, DiffKeeps, PTL DEF DiffSpec

-----------------------------------------------------------------------------
(* What the invariant says.                                                *)

LEMMA InvIsTyped == DiffInv => DiffTypeOK
<1> SUFFICES ASSUME DiffInv PROVE DiffTypeOK
  OBVIOUS
<1>1. stage = "back" => distance \in 0..Len(trace) - 1
  BY DEF DiffInv, Backing
<1> QED
  BY <1>1 DEF DiffInv, DiffTypeOK, LineSeq

LEMMA InvStaysInside == DiffInv => WayBackStaysInside
<1> SUFFICES ASSUME DiffInv, stage = "back" PROVE WayBackStaysInside
  BY DEF WayBackStaysInside
<1> DEFINE n == Len(trace)
<1>1. before \in LineSeq /\ after \in LineSeq /\ FoundAt /\ Backing
  BY DEF DiffInv
<1>2. /\ n \in Nat \ {0} /\ Frontiers(before, after, trace, n)
      /\ distance \in 0..n - 1 /\ x \in 0..Len(before) /\ y \in 0..Len(after)
      /\ x - y \in Diagonals(distance) /\ trace[distance + 1][x - y] = x
  BY <1>1 DEF FoundAt, Backing
<1>3. Len(before) \in Nat /\ Len(after) \in Nat
  BY <1>1, LenProperties DEF LineSeq
<1> HIDE DEF n
<1>4. ASSUME distance > 0
      PROVE  IF Corner[1] = From[1] THEN Corner[2] \in 1..Len(after) ELSE Corner[1] \in 1..Len(before)
  <2>1. distance \in 1..n - 1
    BY <1>2, <1>4
  <2>2. /\ Corner[1] \in Nat /\ Corner[2] \in Nat /\ Corner[1] <= x /\ Corner[2] <= y
        /\ Corner[1] = From[1] => Corner[2] >= 1
        /\ Corner[1] # From[1] => Corner[1] >= 1
    BY <1>1, <1>2, <2>1, BackIs
  <2>3. x \in Int /\ y \in Int /\ x <= Len(before) /\ y <= Len(after)
    BY <1>2, <1>3
  <2> QED
    BY <1>3, <2>2, <2>3
<1> QED
  BY <1>2, <1>4 DEF WayBackStaysInside

LEMMA InvTurnsOldIntoNew == DiffInv => HunksTurnOldIntoNew
<1> SUFFICES ASSUME DiffInv, stage = "done" PROVE HunksTurnOldIntoNew
  BY DEF HunksTurnOldIntoNew
<1>1. Patched(old, hunks) = new /\ Neat(old, hunks)
  BY DEF DiffInv
<1>2. HunksAreApart
  BY <1>1 DEF Neat, HunksAreApart
<1>3. \A i \in DOMAIN hunks :
        SubSeq(old, hunks[i].old_start, hunks[i].old_start + Len(hunks[i].removed) - 1) = hunks[i].removed
  BY <1>1 DEF Neat, NamesLines
<1> QED
  BY <1>1, <1>2, <1>3 DEF HunksTurnOldIntoNew

LEMMA InvIsShortest == DiffInv => ScriptIsShortest
<1> SUFFICES ASSUME DiffInv, stage = "group" PROVE ScriptIsShortest
  BY DEF ScriptIsShortest
<1>1. FoundAt /\ LeadsOn(0, 0, 0)
  BY DEF DiffInv
<1>2. edits \in Script /\ Cardinality(Changes(edits)) + 0 = EditDistance(before, after)
  BY <1>1 DEF FoundAt, LeadsOn
<1>3. Cardinality(Changes(edits)) \in Nat
  BY <1>2, ChangesAre
<1>4. Cardinality(Changes(edits)) = EditDistance(before, after)
  BY <1>2, <1>3
<1> QED
  BY <1>4 DEF Changes, ScriptIsShortest

-----------------------------------------------------------------------------

\* maxMyersTraceInts (diff.go:82): the frontiers kept never take more than it
\* allows, the search runs only between two texts that both have lines left, and
\* the way back never asks for a frontier that was not kept.
THEOREM DiffTyped == DiffSpec => []DiffTypeOK
<1> QED
  BY DiffHolds, InvIsTyped, PTL

\* backtrackMyers (diff.go:117) takes lines by indices computed from frontiers,
\* some of whose points lie past the end of a text: for any two texts it never
\* steps outside of either.
THEOREM WayBackIsInside == DiffSpec => []WayBackStaysInside
<1> QED
  BY DiffHolds, InvStaysInside, PTL

\* computeChanges (diff.go): for any two texts and any allowance, the hunks put in
\* place of the lines they name turn the old text into the new one, name the lines
\* as they are and are apart, whether the search ended or was given up.
THEOREM HunksAreRight == DiffSpec => []HunksTurnOldIntoNew
<1> QED
  BY DiffHolds, InvTurnsOldIntoNew, PTL

\* diff.go:4: the script myersLineDiff returns has exactly as many insertions and
\* deletions as the fewest that turn the one text into the other, by the textbook
\* recurrence.
THEOREM MyersIsShortest == DiffSpec => []ScriptIsShortest
<1> QED
  BY DiffHolds, InvIsShortest, PTL

-----------------------------------------------------------------------------
(* The recurrence of EditDistance is a bound: no script is shorter.        *)

LEMMA ScriptOfOne ==
  ASSUME NEW e \in Edits
  PROVE  <<e>> \in Script /\ Cardinality(Changes(<<e>>)) = IF e.kind = "equal" THEN 0 ELSE 1
<1>1. <<e>> \in Script /\ Len(<<e>>) = 1 /\ <<e>>[1] = e /\ (e.kind # "equal" => Cardinality(Changes(<<e>>)) = 1)
  BY OneEdit
<1>2. ASSUME e.kind = "equal" PROVE Cardinality(Changes(<<e>>)) = 0
  <2>1. DOMAIN <<e>> = 1..1
    OBVIOUS
  <2>2. Changes(<<e>>) = {}
    BY <1>1, <1>2, <2>1 DEF Changes
  <2> QED
    BY <2>2, FS_EmptySet
<1> QED
  BY <1>1, <1>2

\* An edit leads at most one further, an equal line no further.
LEMMA EditCosts ==
  ASSUME NEW b \in LineSeq, NEW a \in LineSeq, NEW D, IsDistance(b, a, D),
         NEW e, NEW p \in Cells(b, a), NEW q \in Cells(b, a), EditAt(b, a, e, p, q)
  PROVE  /\ D[p] \in Nat /\ D[q] \in Nat
         /\ D[q] <= D[p] + IF e.kind = "equal" THEN 0 ELSE 1
<1>1. PICK i \in 0..Len(b), j \in 0..Len(a) : p = <<i, j>>
  BY DEF Cells
<1>2. Len(b) \in Nat /\ Len(a) \in Nat
  BY LenProperties DEF LineSeq
<1>3. /\ D[p] \in Nat
      /\ i < Len(b) => D[<<i + 1, j>>] \in Nat /\ D[<<i + 1, j>>] <= D[p] + 1
      /\ j < Len(a) => D[<<i, j + 1>>] \in Nat /\ D[<<i, j + 1>>] <= D[p] + 1
      /\ i < Len(b) /\ j < Len(a) /\ b[i + 1] = a[j + 1] => D[<<i + 1, j + 1>>] = D[p]
  BY <1>1, DistanceGrows
<1>4. q[1] \in 0..Len(b) /\ q[2] \in 0..Len(a) /\ q = <<q[1], q[2]>>
  BY DEF Cells
<1>5. CASE e = Edit("equal", b[q[1]]) /\ q = <<p[1] + 1, p[2] + 1>> /\ b[q[1]] = a[q[2]]
  <2>1. q = <<i + 1, j + 1>> /\ q[1] = i + 1 /\ q[2] = j + 1 /\ e.kind = "equal"
    BY <1>1, <1>5 DEF Edit
  <2>2. i < Len(b) /\ j < Len(a) /\ b[i + 1] = a[j + 1]
    BY <1>2, <1>4, <1>5, <2>1
  <2>3. D[q] = D[p]
    BY <1>3, <2>1, <2>2
  <2> QED
    BY <1>3, <2>1, <2>3
<1>6. CASE e = Edit("delete", b[q[1]]) /\ q = <<p[1] + 1, p[2]>>
  <2>1. q = <<i + 1, j>> /\ q[1] = i + 1 /\ e.kind # "equal"
    BY <1>1, <1>6 DEF Edit
  <2>2. i < Len(b)
    BY <1>2, <1>4, <2>1
  <2> QED
    BY <1>3, <2>1, <2>2
<1>7. CASE e = Edit("insert", a[q[2]]) /\ q = <<p[1], p[2] + 1>>
  <2>1. q = <<i, j + 1>> /\ q[2] = j + 1 /\ e.kind # "equal"
    BY <1>1, <1>7 DEF Edit
  <2>2. j < Len(a)
    BY <1>2, <1>4, <2>1
  <2> QED
    BY <1>3, <2>1, <2>2
<1> QED
  BY <1>5, <1>6, <1>7 DEF EditAt

LEMMA NoScriptIsShorter ==
  ASSUME NEW b \in LineSeq, NEW a \in LineSeq, NEW es \in Script,
         Path(b, a, es, <<0, 0>>, <<Len(b), Len(a)>>)
  PROVE  EditDistance(b, a) <= Cardinality(Changes(es))
<1> DEFINE L == Len(es)
           Cost(i) == Cardinality(Changes(SubSeq(es, 1, i)))
<1>1. PICK D : IsDistance(b, a, D) /\ EditDistance(b, a) = D[<<Len(b), Len(a)>>]
  BY DistanceIs
<1>2. PICK at : Way(b, a, es, at, <<0, 0>>, <<Len(b), Len(a)>>)
  BY DEF Path
<1>3. /\ at \in [0..L -> Cells(b, a)] /\ at[0] = <<0, 0>> /\ at[L] = <<Len(b), Len(a)>>
      /\ \A i \in 1..L : EditAt(b, a, es[i], at[i - 1], at[i])
  BY <1>2 DEF Way
<1>4. L \in Nat /\ \A i \in 1..L : es[i] \in Edits
  BY LenProperties, ElementOfSeq DEF Script
<1> DEFINE S == {i \in 0..L : D[at[i]] <= Cost(i)}
<1>5. 0 \in S
  <2>1. SubSeq(es, 1, 0) = <<>>
    BY SubSeqEmpty DEF Script
  <2>2. DOMAIN <<>> = {}
    OBVIOUS
  <2>3. Changes(<<>>) = {}
    BY <2>2 DEF Changes
  <2>4. Cost(0) = 0
    BY <2>1, <2>3, FS_EmptySet
  <2>5. 0 \in 0..Len(b) /\ 0 \in 0..Len(a)
    BY LenProperties DEF LineSeq
  <2>6. D[<<0, 0>>] = Cell(b, a, D, 0, 0)
    BY <1>1, <2>5 DEF IsDistance
  <2>7. D[<<0, 0>>] = 0
    BY <2>6 DEF Cell
  <2>8. D[at[0]] <= Cost(0)
    <3> HIDE DEF Cost
    <3>1. D[at[0]] = 0
      BY <1>3, <2>7
    <3> QED
      BY <2>4, <3>1
  <2>9. 0 \in 0..L
    BY <1>4
  <2> HIDE DEF Cost
  <2> QED
    BY <2>8, <2>9
<1>6. ASSUME NEW i \in 0..L - 1, i \in S PROVE i + 1 \in S
  <2> DEFINE e == es[i + 1]
             s == SubSeq(es, 1, i)
  <2>1. i \in Nat /\ i \in 0..L /\ i + 1 \in 1..L /\ i + 1 \in 0..L /\ (i + 1) - 1 = i
    BY <1>4
  <2>2. e \in Edits
    BY <1>4, <2>1
  <2>3. EditAt(b, a, e, at[i], at[i + 1]) /\ at[i] \in Cells(b, a) /\ at[i + 1] \in Cells(b, a)
    <3>1. EditAt(b, a, e, at[(i + 1) - 1], at[i + 1])
      BY <1>3, <2>1
    <3> HIDE DEF e
    <3> QED
      BY <1>3, <2>1, <3>1
  <2>4. s \in Script
    <3>1. \A k \in 1..i : k \in 1..L
      BY <1>4, <2>1
    <3>2. \A k \in 1..i : es[k] \in Edits
      BY <1>4, <3>1
    <3> QED
      BY <1>4, <2>1, <3>2, SubSeqProperties DEF Script
  <2>5. SubSeq(es, 1, i + 1) = s \o <<e>>
    <3>1. 1 \in 1..i + 1 + 1
      BY <2>1
    <3> QED
      BY <1>4, <2>1 DEF Script
  <2> HIDE DEF e, s
  <2>6. <<e>> \in Script /\ Cardinality(Changes(<<e>>)) = IF e.kind = "equal" THEN 0 ELSE 1
    BY <2>2, ScriptOfOne
  <2>7. Cost(i + 1) = Cost(i) + IF e.kind = "equal" THEN 0 ELSE 1
    <3>1. Cardinality(Changes(s \o <<e>>)) = Cardinality(Changes(s)) + Cardinality(Changes(<<e>>))
      BY <2>4, <2>6, ChangesJoin
    <3> QED
      BY <2>5, <2>6, <3>1 DEF s
  <2>8. Cost(i) \in Nat
    BY <2>4, ChangesAre DEF s
  <2>9. /\ D[at[i]] \in Nat /\ D[at[i + 1]] \in Nat
        /\ D[at[i + 1]] <= D[at[i]] + IF e.kind = "equal" THEN 0 ELSE 1
    BY <1>1, <2>3, EditCosts
  <2>10. D[at[i]] <= Cost(i)
    BY <1>6
  <2> HIDE DEF Cost
  <2>11. D[at[i + 1]] <= Cost(i + 1)
    BY <2>7, <2>8, <2>9, <2>10
  <2> QED
    BY <2>1, <2>11
<1>7. SubSeq(es, 1, L) = es
  BY <1>4 DEF Script
<1>8. L \in S
  <2>1. 0 \in Nat /\ L \in 0..L
    BY <1>4
  <2> HIDE DEF S, L
  <2>2. \A i \in 0..L : i \in S
    <3>1. \A i \in 0..L - 1 : i \in S => i + 1 \in S
      BY <1>6
    <3> QED
      BY <1>4, <1>5, <2>1, <3>1, Upwards
  <2> QED
    BY <2>1, <2>2
<1>9. D[at[L]] <= Cost(L)
  BY <1>8
<1> QED
  BY <1>1, <1>3, <1>7, <1>9

\* diff.go:4 again, with no recurrence: of all scripts of equal lines, deletions and
\* insertions that lead through both texts to their ends, none has fewer changes
\* than the one that myersLineDiff returns.
THEOREM NoneIsShorter ==
  DiffSpec => [](stage = "group" =>
                   \A es \in Script :
                     Path(before, after, es, <<0, 0>>, <<Len(before), Len(after)>>)
                       => Cardinality(Changes(edits)) <= Cardinality(Changes(es)))
<1> DEFINE Best == stage = "group" =>
                     \A es \in Script :
                       Path(before, after, es, <<0, 0>>, <<Len(before), Len(after)>>)
                         => Cardinality(Changes(edits)) <= Cardinality(Changes(es))
<1>1. DiffInv => Best
  <2> SUFFICES ASSUME DiffInv, stage = "group", NEW es \in Script,
                      Path(before, after, es, <<0, 0>>, <<Len(before), Len(after)>>)
               PROVE  Cardinality(Changes(edits)) <= Cardinality(Changes(es))
    OBVIOUS
  <2>1. before \in LineSeq /\ after \in LineSeq
    BY DEF DiffInv
  <2>2. ScriptIsShortest
    BY InvIsShortest
  <2>3. Cardinality(Changes(edits)) = EditDistance(before, after)
    BY <2>2 DEF ScriptIsShortest, Changes
  <2>4. EditDistance(before, after) <= Cardinality(Changes(es))
    BY <2>1, NoScriptIsShorter
  <2> QED
    BY <2>3, <2>4
<1> HIDE DEF Best
<1>2. DiffSpec => []Best
  BY <1>1, DiffHolds, PTL
<1> QED
  BY <1>2 DEF Best

-----------------------------------------------------------------------------
(* The four parts together.                                                *)
LEMMA PartsStart == Init => CallInit /\ KissInit /\ EditInit /\ DiffInit
BY DEF Init, CallStands, EditStands, DiffStands

(* A step of the whole is a step of each part, or leaves it alone.         *)
LEMMA PartsStep ==
  [Next]_<<called, callVars, kissVars, editVars, diffVars>> =>
    /\ [CallNext]_callVars /\ [KissNext]_kissVars
    /\ [EditNext]_editVars /\ [DiffNext]_diffVars
<1>1. Next => /\ [CallNext]_callVars /\ [KissNext]_kissVars
              /\ [EditNext]_editVars /\ [DiffNext]_diffVars
  BY Zenon DEF Next
<1>2. UNCHANGED <<called, callVars, kissVars, editVars, diffVars>> =>
        UNCHANGED callVars /\ UNCHANGED kissVars /\ UNCHANGED editVars /\ UNCHANGED diffVars
  OBVIOUS
<1>. QED  BY <1>1, <1>2, Zenon

(* From the patch or the request to the diff (mcp.go:293, edit.go:134,     *)
(* main.go:549): whichever part is called, each part goes through one of   *)
(* its own behaviours, so that what is proved of a part holds of all.      *)
THEOREM PartsAlone == Spec => CallSpec /\ KissSpec /\ EditSpec /\ DiffSpec
BY PartsStart, PartsStep, PTL DEF Spec, CallSpec, KissSpec, EditSpec, DiffSpec

(* Every reachable state of the four parts has its type, for any calls,    *)
(* patches, requests and texts.                                            *)
THEOREM TypeCorrect == Spec => []TypeOK
<1>1. CallTypeOK /\ KissTypeOK /\ EditTypeOK /\ DiffTypeOK => TypeOK
  BY DEF TypeOK
<1>. QED  BY <1>1, PartsAlone, CallTypes, ParserTypes, EditTypes, DiffTyped, PTL
===============================================================================
