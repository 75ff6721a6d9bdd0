--------------------------- MODULE CallbackObject ---------------------------
(***************************************************************************)
(* One JSCallbackObject instance and the chain of class descriptors        *)
(* (JSClassRef, linked by parentClass) that it dispatches through.         *)
(* Source: Source/JavaScriptCore/API/JSCallbackObjectFunctions.h.          *)
(*                                                                         *)
(* Every engine entry point of the file is one atomic action: the whole    *)
(* chain walk, every host callback it invokes and every own property it   *)
(* installs happen in one step.  A host callback is arbitrary embedder     *)
(* code, so its answer is a nondeterministic choice; within one operation  *)
(* the host answers consistently (an oracle h chosen per step), so a       *)
(* callback invoked twice in one operation answers the same both times.   *)
(*                                                                         *)
(* The descriptor chain is immutable after registration: it is a variable *)
(* only so that Init can range over every chain a run allows.              *)
(***************************************************************************)
EXTENDS Integers, Sequences, FiniteSets, SequencesExt

CONSTANTS
    Depth,          \* length of the descriptor chain (classRef() at 1)
    Names,          \* property names scripts use
    PutValues,      \* values scripts write (small integers)
    ChainConfigs,   \* the descriptor chains Init may pick
    Layouts,        \* {"union","separate"}: how StaticValueEntry stores v0/v1000
    Responses,      \* Responses[i]: answers property callbacks at depth i may give
    MaxFns,         \* bound on callables materialized by staticFunctionGetter
    IndexNames      \* the names of Names that are array indices (putByIndex)

ASSUME Depth \in Nat \ {0} /\ MaxFns \in Nat /\ IndexNames \subseteq Names

Levels == 1..Depth

(***************************************************************************)
(* Descriptor shapes.  cbs is the set of callback fields that are non-null *)
(* in the descriptor's own generation (v0 when ver = 0, v1000 when ver =   *)
(* 1000); sv and sf are the static value / static function tables.         *)
(***************************************************************************)
Generations   == {0, 1000}
CallbackKinds == {"initialize", "finalize", "hasProperty", "getProperty",
                  "setProperty", "deleteProperty", "getPropertyNames",
                  "callAsFunction", "callAsConstructor", "hasInstance",
                  "convertToType"}
Attributes    == {"ReadOnly", "DontEnum", "DontDelete"}
NoEntry       == [none |-> TRUE]
StaticValueEntry    == [get : BOOLEAN, set : BOOLEAN, attrs : SUBSET Attributes]
StaticFunctionEntry == [fn : BOOLEAN, attrs : SUBSET Attributes]
ClassDescriptor ==
    [ver : Generations, cbs : SUBSET CallbackKinds,
     sv : [Names -> StaticValueEntry \cup {NoEntry}],
     sf : [Names -> StaticFunctionEntry \cup {NoEntry}]]

(***************************************************************************)
(* Script values.  Every value is a record [k, src, id] so that values of  *)
(* different origin compare: data written by script, a value returned by  *)
(* the host callback of kind cb at depth src, a callable created by        *)
(* JSCallbackFunction::create, undefined, and the two non-values a read    *)
(* can end in.                                                             *)
(***************************************************************************)
Data(v)          == [k |-> "data", src |-> 0, id |-> v]
HostValue(i, cb) == [k |-> cb, src |-> i, id |-> 0]
Function(i, id)  == [k |-> "fn", src |-> i, id |-> id]
Undefined        == [k |-> "undefined", src |-> 0, id |-> 0]
NotFound         == [k |-> "notFound", src |-> 0, id |-> 0]
ReferenceError   == [k |-> "referenceError", src |-> 0, id |-> 0]
NoValue          == [k |-> "empty", src |-> 0, id |-> 0]   \* JSValue()

NoSlot == [val |-> NoValue, attrs |-> {}]

(***************************************************************************)
(* Host answers.  hasProperty returns a bool; getter-like callbacks return *)
(* a value, NULL, or set the exception out-parameter; bool callbacks with  *)
(* an exception out-parameter return true or false and may set it.        *)
(***************************************************************************)
HasAnswers  == {"yes", "no"}
GetAnswers  == {"value", "null", "throw"}
BoolAnswers == {"true", "false", "throw", "throwTrue"}
CallAnswers == {"value", "throw"}
Declines    == {"no", "null", "false"}
Throws(out)  == out \in {"throw", "throwTrue"}
Returns(out) == out \in {"true", "throwTrue"}

(* One host callback invocation: depth, kind, answer, the generation of    *)
(* the signature it was called through, and whether the engine lock was    *)
(* dropped (JSLock::DropAllLocks) around it.                               *)
Invoke(i, cb, out, abi, unlocked) ==
    [at |-> i, cb |-> cb, out |-> out, abi |-> abi, unlocked |-> unlocked]

VARIABLES
    cls,        \* cls[i]: descriptor at depth i of the chain
    layout,     \* build layout of StaticValueEntry callbacks
    phase,      \* "unborn", "live" (after init), "dead" (after destructor)
    own,        \* own (Parent) properties: [Names -> [val, attrs]]
    fnCount,    \* callables created so far (fresh identities)
    privateData,\* m_callbackObjectData->privateData
    lastOp,     \* observation of the last operation: its log and result
    written     \* history: what a script last stored under each name

vars == <<cls, layout, phase, own, fnCount, privateData, lastOp, written>>

Unwritten == [k |-> "unwritten", src |-> 0, id |-> 0]
Deleted   == [k |-> "deleted", src |-> 0, id |-> 0]

HasCb(i, cb) == cb \in cls[i].cbs
Gen(i)       == cls[i].ver

-----------------------------------------------------------------------------
(***************************************************************************)
(* getStaticValue (686-721): walks the whole chain again from classRef(),  *)
(* the first entry for n whose getter answers decides.                     *)
(***************************************************************************)
RECURSIVE GetStaticValue(_, _, _)
GetStaticValue(n, j, h) ==
    IF j > Depth THEN [log |-> <<>>, val |-> NoValue, exc |-> FALSE]
    ELSE IF cls[j].sv[n] = NoEntry \/ ~cls[j].sv[n].get
    THEN GetStaticValue(n, j + 1, h)
    ELSE LET out  == h[j].staticGet
             call == Invoke(j, "staticGet", out, Gen(j), TRUE)
         IN CASE out = "throw" -> [log |-> <<call>>, val |-> Undefined, exc |-> TRUE]
              [] out = "value" -> [log |-> <<call>>, val |-> HostValue(j, "staticGet"), exc |-> FALSE]
              [] OTHER -> LET r == GetStaticValue(n, j + 1, h)
                          IN [r EXCEPT !.log = <<call>> \o @]

Slot(kind, val, exc) == [kind |-> kind, val |-> val, exc |-> exc]

(* `if (value)` on getStaticValue's result (line 226): JSValue() means no *)
(* getter answered and the lookup goes on.                                 *)
StaticValueFound_Any(sv) == TRUE                   \* mutant: check dropped
StaticValueFound(sv) == sv.val # NoValue
Continue == Slot("continue", NoValue, FALSE)

(***************************************************************************)
(* getOwnPropertySlot (169-243) from depth i on.  At each descriptor:      *)
(* hasProperty, else getProperty; then the static value table (through     *)
(* getStaticValue); then the static function table; then the parent.       *)
(***************************************************************************)
RECURSIVE GetOwnPropertySlot(_, _, _)
GetOwnPropertySlot(n, i, h) ==
    IF i > Depth
    THEN [log |-> <<>>,
          slot |-> IF own[n] = NoSlot THEN Slot("absent", NotFound, FALSE)
                                       ELSE Slot("own", own[n].val, FALSE)]
    ELSE LET c   == cls[i]
             dyn == \* lines 188-220
               IF HasCb(i, "hasProperty")
               THEN LET out == h[i].hasProperty IN
                    [log  |-> <<Invoke(i, "hasProperty", out, Gen(i), TRUE)>>,
                     slot |-> IF out = "yes" THEN Slot("callback", NoValue, FALSE)
                                             ELSE Continue]
               ELSE IF HasCb(i, "getProperty")
               THEN LET out == h[i].getProperty IN
                    [log  |-> <<Invoke(i, "getProperty", out, Gen(i), TRUE)>>,
                     slot |-> CASE out = "throw" -> Slot("value", Undefined, TRUE)
                                [] out = "value" -> Slot("value", HostValue(i, "getProperty"), FALSE)
                                [] OTHER -> Continue]
               ELSE [log |-> <<>>, slot |-> Continue]
             sv == \* lines 223-231
               IF c.sv[n] = NoEntry THEN [log |-> <<>>, val |-> NoValue, exc |-> FALSE]
                                    ELSE GetStaticValue(n, 1, h)
             log == dyn.log \o sv.log
         IN IF dyn.slot # Continue THEN dyn
            ELSE IF c.sv[n] # NoEntry /\ StaticValueFound(sv)
                 THEN [log |-> log, slot |-> Slot("value", sv.val, sv.exc)]
            ELSE IF c.sf[n] # NoEntry     \* lines 233-238
                 THEN [log |-> log, slot |-> Slot("staticFunction", NoValue, FALSE)]
            ELSE LET r == GetOwnPropertySlot(n, i + 1, h)
                 IN [r EXCEPT !.log = log \o @]

(***************************************************************************)
(* callbackGetter (759-795): the first getProperty of the chain that       *)
(* answers gives the value; none does: a ReferenceError.                   *)
(***************************************************************************)
RECURSIVE CallbackGetter(_, _, _)
CallbackGetter(n, i, h) ==
    IF i > Depth THEN [log |-> <<>>, val |-> ReferenceError, exc |-> TRUE]
    ELSE IF ~HasCb(i, "getProperty") THEN CallbackGetter(n, i + 1, h)
    ELSE LET out  == h[i].getProperty
             call == Invoke(i, "getProperty", out, Gen(i), TRUE)
         IN CASE out = "throw" -> [log |-> <<call>>, val |-> Undefined, exc |-> TRUE]
              [] out = "value" -> [log |-> <<call>>, val |-> HostValue(i, "getProperty"), exc |-> FALSE]
              [] OTHER -> LET r == CallbackGetter(n, i + 1, h)
                          IN [r EXCEPT !.log = <<call>> \o @]

(***************************************************************************)
(* staticFunctionGetter (724-756): an own (cached or override) property    *)
(* answers first; else the first entry with a callback for its generation *)
(* is made a callable, stored with putDirect and the entry's attributes.   *)
(***************************************************************************)
RECURSIVE MaterializeFrom(_, _)
MaterializeFrom(n, j) ==
    IF j > Depth
    THEN [log |-> <<>>, val |-> ReferenceError, exc |-> TRUE, own |-> own, fns |-> fnCount]
    ELSE IF cls[j].sf[n] # NoEntry /\ cls[j].sf[n].fn
    THEN LET f == Function(j, fnCount + 1)
         IN [log |-> <<>>, val |-> f, exc |-> FALSE, fns |-> fnCount + 1,
             own |-> [own EXCEPT ![n] = [val |-> f, attrs |-> cls[j].sf[n].attrs]]]
    ELSE MaterializeFrom(n, j + 1)

StaticFunctionGetter_NoCache(n) == MaterializeFrom(n, 1)   \* mutant: no own check
StaticFunctionGetter(n) ==
    IF own[n] # NoSlot
    THEN [log |-> <<>>, val |-> own[n].val, exc |-> FALSE, own |-> own, fns |-> fnCount]
    ELSE MaterializeFrom(n, 1)

-----------------------------------------------------------------------------
(***************************************************************************)
(* A mutating walk ends in a result [log, ret, exc, own].                  *)
(***************************************************************************)
Result(log, ret, exc, o) == [log |-> log, ret |-> ret, exc |-> exc, own |-> o]
Prefix(log, r) == [r EXCEPT !.log = log \o @]

(* JSObject::put of the parent: a read-only own property refuses, else    *)
(* the own property is created or overwritten keeping its attributes.      *)
ParentPut(n, v) ==
    IF own[n] # NoSlot /\ "ReadOnly" \in own[n].attrs
    THEN Result(<<>>, FALSE, FALSE, own)
    ELSE Result(<<>>, TRUE, FALSE, [own EXCEPT ![n] = [val |-> Data(v), attrs |-> own[n].attrs]])

(* Whether a setter's outcome ends put: `if (result || exception) return  *)
(* result;` (lines 309-312, 330-333).                                       *)
SetterAnswered_NoExc(out) == Returns(out)          \* mutant: exception ignored
SetterAnswered(out) == out # "false"

(* putDirect of an override property, with no attributes (line 346).       *)
PutDirect(n, v) == Result(<<>>, TRUE, FALSE, [own EXCEPT ![n] = [val |-> Data(v), attrs |-> {}]])

(* put's static function branch (339-348): an own (cached or override)   *)
(* property defers to the parent's put, read-only refuses, else an         *)
(* override is put directly.                                               *)
StaticFunctionPut_NoOwnCheck(n, v, f) ==           \* mutant: no own check
    IF "ReadOnly" \in f.attrs THEN Result(<<>>, FALSE, FALSE, own) ELSE PutDirect(n, v)
StaticFunctionPut(n, v, f) ==
    IF own[n] # NoSlot THEN ParentPut(n, v)
    ELSE IF "ReadOnly" \in f.attrs THEN Result(<<>>, FALSE, FALSE, own)
    ELSE PutDirect(n, v)

(***************************************************************************)
(* The setter pointer put reads from a static value entry: entry->v0.      *)
(* setProperty (line 322) whatever the entry's generation.  For a v1000   *)
(* entry this reads the v0 member: with v0/v1000 sharing storage it is the *)
(* Ex setter, called through the legacy signature; stored apart it is null.*)
(***************************************************************************)
EntryV0Setter(i, e) == e.set /\ (Gen(i) = 0 \/ layout = "union")

(***************************************************************************)
(* put (283-353) from depth i on: setProperty; then the static value      *)
(* entry (read-only refuses; its setter runs only when the descriptor also *)
(* has setProperty, line 321); then the static function entry (an own     *)
(* property defers to the parent's put, read-only refuses, else an         *)
(* override is put directly); then the next descriptor; then the parent.   *)
(***************************************************************************)
RECURSIVE Put(_, _, _, _)
Put(n, v, i, h) ==
    IF i > Depth THEN ParentPut(n, v)
    ELSE LET hasSet == HasCb(i, "setProperty")
             out    == h[i].setProperty
             dynLog == IF hasSet THEN <<Invoke(i, "setProperty", out, Gen(i), TRUE)>> ELSE <<>>
             e      == cls[i].sv[n]
             sOut   == h[i].staticSet
             svLog  == dynLog \o <<Invoke(i, "staticSet", sOut, 0, TRUE)>>
             f      == cls[i].sf[n]
             next   == IF f # NoEntry THEN StaticFunctionPut(n, v, f) ELSE Put(n, v, i + 1, h)
         IN IF hasSet /\ SetterAnswered(out)
            THEN Result(dynLog, Returns(out), Throws(out), own)
            ELSE IF e # NoEntry /\ "ReadOnly" \in e.attrs
            THEN Result(dynLog, FALSE, FALSE, own)
            ELSE IF e # NoEntry /\ hasSet /\ EntryV0Setter(i, e) /\ SetterAnswered(sOut)
            THEN Result(svLog, Returns(sOut), Throws(sOut), own)
            ELSE IF e # NoEntry /\ hasSet /\ EntryV0Setter(i, e)
            THEN Prefix(svLog, next)
            ELSE Prefix(dynLog, next)

(***************************************************************************)
(* putByIndex (356-419) from depth i on.  It differs from put in two      *)
(* places: for a static value whose descriptor has setProperty it calls   *)
(* that same setProperty again (line 398) instead of the entry's setter,  *)
(* and a static function entry that is not read-only ends the walk        *)
(* (`break`, line 413) at the parent's putByIndex without the own-property *)
(* check.  The second setProperty call answers as the first did, which    *)
(* declined, so the walk goes on.                                          *)
(***************************************************************************)
RECURSIVE PutByIndex(_, _, _, _)
PutByIndex(n, v, i, h) ==
    IF i > Depth THEN ParentPut(n, v)
    ELSE LET hasSet == HasCb(i, "setProperty")
             out    == h[i].setProperty
             dynLog == IF hasSet THEN <<Invoke(i, "setProperty", out, Gen(i), TRUE)>> ELSE <<>>
             e      == cls[i].sv[n]
             f      == cls[i].sf[n]
             next   == IF f = NoEntry THEN PutByIndex(n, v, i + 1, h)
                       ELSE IF "ReadOnly" \in f.attrs THEN Result(<<>>, FALSE, FALSE, own)
                       ELSE ParentPut(n, v)
         IN IF hasSet /\ SetterAnswered(out)
            THEN Result(dynLog, Returns(out), Throws(out), own)
            ELSE IF e # NoEntry /\ "ReadOnly" \in e.attrs
            THEN Result(dynLog, FALSE, FALSE, own)
            ELSE IF e # NoEntry /\ hasSet
            THEN Prefix(dynLog \o dynLog, next)
            ELSE Prefix(dynLog, next)

ParentDelete_EmptyValue(n) ==                      \* mutant: stores JSValue()
    IF own[n] # NoSlot /\ "DontDelete" \in own[n].attrs
    THEN Result(<<>>, FALSE, FALSE, own)
    ELSE Result(<<>>, TRUE, FALSE, [own EXCEPT ![n] = NoValue])

(* JSObject::deleteProperty of the parent: DontDelete refuses.             *)
ParentDelete(n) ==
    IF own[n] # NoSlot /\ "DontDelete" \in own[n].attrs
    THEN Result(<<>>, FALSE, FALSE, own)
    ELSE Result(<<>>, TRUE, FALSE, [own EXCEPT ![n] = NoSlot])

(***************************************************************************)
(* deleteProperty (422-473): deleteProperty answers when it returns true  *)
(* or throws (the result is then true); a static value or static function *)
(* entry for n answers !DontDelete without touching the own properties.   *)
(***************************************************************************)
RECURSIVE DeleteProperty(_, _, _)
DeleteProperty(n, i, h) ==
    IF i > Depth THEN ParentDelete(n)
    ELSE LET out    == h[i].deleteProperty
             dynLog == IF HasCb(i, "deleteProperty")
                       THEN <<Invoke(i, "deleteProperty", out, Gen(i), TRUE)>> ELSE <<>>
             entry  == IF cls[i].sv[n] # NoEntry THEN cls[i].sv[n] ELSE cls[i].sf[n]
         IN IF HasCb(i, "deleteProperty") /\ out # "false"
            THEN Result(dynLog, TRUE, Throws(out), own)
            ELSE IF entry # NoEntry
            THEN Result(dynLog, "DontDelete" \notin entry.attrs, FALSE, own)
            ELSE Prefix(dynLog, DeleteProperty(n, i + 1, h))

(***************************************************************************)
(* getOwnNonIndexPropertyNames (614-661): per descriptor the host's names, *)
(* the static values that have a getter, the static functions; DontEnum   *)
(* ones only in a mode that includes them; then the parent's own names.   *)
(* hostNames[i] is what getPropertyNames at depth i adds.                   *)
(***************************************************************************)
Listed(attrs, mode) == "DontEnum" \notin attrs \/ mode
PropertyNames(mode, hostNames) ==
    LET at(i) == (IF HasCb(i, "getPropertyNames") THEN hostNames[i] ELSE {})
                 \cup {n \in Names : cls[i].sv[n] # NoEntry /\ cls[i].sv[n].get
                                     /\ Listed(cls[i].sv[n].attrs, mode)}
                 \cup {n \in Names : cls[i].sf[n] # NoEntry /\ Listed(cls[i].sf[n].attrs, mode)}
    IN UNION {at(i) : i \in Levels}
       \cup {n \in Names : own[n] # NoSlot /\ Listed(own[n].attrs, mode)}

(* The chain walk shared by call, construct, customHasInstance and        *)
(* defaultValue: the shallowest depth whose descriptor has callback cb.    *)
FirstWith(cb) == IF \E i \in Levels : HasCb(i, cb)
                 THEN CHOOSE i \in Levels : HasCb(i, cb) /\ \A j \in 1..(i - 1) : ~HasCb(j, cb)
                 ELSE 0

(* getCallData (564-574) and getConstructData (483-493): the capability   *)
(* probe, true when some descriptor has the callback in its generation.    *)
GetCallData == \E i \in Levels : HasCb(i, "callAsFunction")
GetConstructData == \E i \in Levels : HasCb(i, "callAsConstructor")

(* inherits (676-683): membership of a descriptor in the chain.            *)
Inherits(c) == \E i \in Levels : cls[i] = c

(***************************************************************************)
(* defaultValue (252-280): the first convertToType that answers decides;  *)
(* the callback is invoked WITHOUT dropping the engine lock.               *)
(***************************************************************************)
RECURSIVE DefaultValue(_, _)
DefaultValue(i, h) ==
    IF i > Depth THEN [log |-> <<>>, val |-> HostValue(0, "ordinaryToPrimitive"), exc |-> FALSE]
    ELSE IF ~HasCb(i, "convertToType") THEN DefaultValue(i + 1, h)
    ELSE LET call == Invoke(i, "convertToType", h[i], Gen(i), FALSE)
         IN CASE h[i] = "throw" -> [log |-> <<call>>, val |-> Undefined, exc |-> TRUE]
              [] h[i] = "value" -> [log |-> <<call>>, val |-> HostValue(i, "convertToType"), exc |-> FALSE]
              [] OTHER -> LET r == DefaultValue(i + 1, h) IN [r EXCEPT !.log = <<call>> \o @]

(* init (121-146): the chain flattened derived->base, then initialize    *)
(* invoked from the last entry back to the first, each under DropAllLocks. *)
InitRoutines == [k \in Levels |-> k]
InitOrder == Reverse(InitRoutines)
Init_Log ==
    LET order == SelectSeq(InitOrder, LAMBDA i : HasCb(i, "initialize"))
    IN [k \in DOMAIN order |-> Invoke(order[k], "initialize", "done", Gen(order[k]), TRUE)]

(* ~JSCallbackObject (83-100): finalize derived->base, lock not dropped.  *)
Finalize_Log ==
    LET order == SelectSeq(InitRoutines, LAMBDA i : HasCb(i, "finalize"))
    IN [k \in DOMAIN order |-> Invoke(order[k], "finalize", "done", Gen(order[k]), FALSE)]

-----------------------------------------------------------------------------
(***************************************************************************)
(* Observations of the last operation.                                     *)
(***************************************************************************)
Observe(op, n, log, fetch, via, result, ret, exc, names) ==
    [op |-> op, name |-> n, log |-> log, fetch |-> fetch, via |-> via,
     result |-> result, ret |-> ret, exc |-> exc, names |-> names]
NoName == "none"
NoOp   == Observe("none", NoName, <<>>, <<>>, "none", NoValue, FALSE, FALSE, {})

NoHostAnswer(log) == \A k \in DOMAIN log : log[k].out \in Declines

(* The host oracles an operation on name n can meet: answers only for the *)
(* callbacks the chain has (an absent one is never asked, so its entry is  *)
(* fixed to a decline and adds no branching), restricted to Responses.    *)
Answers(i, present, S, dflt) == IF present THEN S \cap Responses[i] ELSE {dflt}
GetterOf(i, n) == cls[i].sv[n] # NoEntry /\ cls[i].sv[n].get
SetterOf(i, n) == cls[i].sv[n] # NoEntry /\ cls[i].sv[n].set
GetLevel(n, i) ==
    [hasProperty : Answers(i, HasCb(i, "hasProperty"), HasAnswers, "no"),
     getProperty : Answers(i, HasCb(i, "getProperty"), GetAnswers, "null"),
     staticGet   : Answers(i, GetterOf(i, n), GetAnswers, "null")]
PutLevel(n, i) ==
    [setProperty : Answers(i, HasCb(i, "setProperty"), BoolAnswers, "false"),
     staticSet   : Answers(i, SetterOf(i, n), BoolAnswers, "false")]
DelLevel(i) ==
    [deleteProperty : Answers(i, HasCb(i, "deleteProperty"), BoolAnswers, "false")]

(* The oracles themselves: one answer record per depth i..Depth.          *)
RECURSIVE GetHosts(_, _), PutHosts(_, _), DelHosts(_)
GetHosts(n, i) == IF i > Depth THEN {<<>>}
                  ELSE {<<r>> \o t : r \in GetLevel(n, i), t \in GetHosts(n, i + 1)}
PutHosts(n, i) == IF i > Depth THEN {<<>>}
                  ELSE {<<r>> \o t : r \in PutLevel(n, i), t \in PutHosts(n, i + 1)}
DelHosts(i)    == IF i > Depth THEN {<<>>}
                  ELSE {<<r>> \o t : r \in DelLevel(i), t \in DelHosts(i + 1)}

Init ==
    /\ cls \in ChainConfigs
    /\ layout \in Layouts
    /\ phase = "unborn"
    /\ own = [n \in Names |-> NoSlot]
    /\ fnCount = 0
    /\ privateData = 0
    /\ lastOp = NoOp
    /\ written = [n \in Names |-> Unwritten]

(* JSCallbackObject construction: finishCreation -> init.                  *)
Create ==
    /\ phase = "unborn"
    /\ phase' = "live"
    /\ lastOp' = Observe("create", NoName, Init_Log, <<>>, "none", NoValue, FALSE, FALSE, {})
    /\ UNCHANGED <<cls, layout, own, fnCount, privateData, written>>

(* The destructor, run by the collector.                                   *)
Destroy ==
    /\ phase = "live"
    /\ phase' = "dead"
    /\ lastOp' = Observe("destroy", NoName, Finalize_Log, <<>>, "none", NoValue, FALSE, FALSE, {})
    /\ UNCHANGED <<cls, layout, own, fnCount, privateData, written>>

(* [[Get]]: getOwnPropertySlot, then the slot's value is read (the custom *)
(* getters callbackGetter / staticFunctionGetter run at that point).       *)
GetProperty(n) ==
    /\ phase = "live"
    /\ \E h \in GetHosts(n, 1) :
        LET look == GetOwnPropertySlot(n, 1, h)
            s    == look.slot
            cg   == CallbackGetter(n, 1, h)
            read == CASE s.kind = "callback" ->
                            [log |-> cg.log, val |-> cg.val, exc |-> cg.exc,
                             own |-> own, fns |-> fnCount]
                      [] s.kind = "staticFunction" -> StaticFunctionGetter(n)
                      [] OTHER -> [log |-> <<>>, val |-> s.val, exc |-> s.exc,
                                   own |-> own, fns |-> fnCount]
            exc  == s.exc \/ read.exc
        IN /\ read.fns <= MaxFns
           /\ own' = read.own
           /\ fnCount' = read.fns
           /\ lastOp' = Observe("get", n, look.log, read.log, s.kind, read.val, FALSE, exc, {})
           /\ written' = IF NoHostAnswer(look.log) /\ ~exc /\ s.kind \in {"staticFunction", "own"}
                         THEN [written EXCEPT ![n] = read.val] ELSE written
    /\ UNCHANGED <<cls, layout, phase, privateData>>

(* The `in` operator: getOwnPropertySlot only; no getter runs.              *)
HasProperty(n) ==
    /\ phase = "live"
    /\ \E h \in GetHosts(n, 1) :
        LET look == GetOwnPropertySlot(n, 1, h)
        IN lastOp' = Observe("has", n, look.log, <<>>, look.slot.kind, NoValue,
                             look.slot.kind # "absent", look.slot.exc, {})
    /\ UNCHANGED <<cls, layout, phase, own, fnCount, privateData, written>>

(* [[Set]]: put.  A write no host callback answered is what later reads    *)
(* that no host callback answers must see: recorded in written.            *)
PutProperty(n) ==
    /\ phase = "live"
    /\ \E v \in PutValues, h \in PutHosts(n, 1) :
        LET r == Put(n, v, 1, h)
        IN /\ own' = r.own
           /\ lastOp' = Observe("put", n, r.log, <<>>, "none", Data(v), r.ret, r.exc, {})
           /\ written' = IF r.ret /\ ~r.exc /\ NoHostAnswer(r.log)
                         THEN [written EXCEPT ![n] = Data(v)] ELSE written
    /\ UNCHANGED <<cls, layout, phase, fnCount, privateData>>

(* [[Set]] on an array-index name: putByIndex.  alt records what put      *)
(* would have left (own properties, result) with the same host answers.    *)
PutByIndexOp(n) ==
    /\ phase = "live"
    /\ n \in IndexNames
    /\ \E v \in PutValues, h \in PutHosts(n, 1) :
        LET r == PutByIndex(n, v, 1, h)
            p == Put(n, v, 1, h)
        IN /\ own' = r.own
           /\ lastOp' = Observe("putByIndex", n, r.log, <<>>, "none", Data(v), r.ret, r.exc, {})
                        @@ [alt |-> [own |-> p.own, ret |-> p.ret, exc |-> p.exc]]
           /\ written' = IF r.ret /\ ~r.exc /\ NoHostAnswer(r.log)
                         THEN [written EXCEPT ![n] = Data(v)] ELSE written
    /\ UNCHANGED <<cls, layout, phase, fnCount, privateData>>

(* delete.  A delete reported successful with no host answering it is     *)
(* recorded as Deleted.                                                     *)
DeletePropertyOp(n) ==
    /\ phase = "live"
    /\ \E h \in DelHosts(1) :
        LET r == DeleteProperty(n, 1, h)
        IN /\ own' = r.own
           /\ lastOp' = Observe("delete", n, r.log, <<>>, "none", NoValue, r.ret, r.exc, {})
           /\ written' = IF r.ret /\ ~r.exc /\ NoHostAnswer(r.log)
                         THEN [written EXCEPT ![n] = Deleted] ELSE written
    /\ UNCHANGED <<cls, layout, phase, fnCount, privateData>>

(* for-in / Object.getOwnPropertyNames.                                     *)
GetPropertyNames ==
    /\ phase = "live"
    /\ \E mode \in BOOLEAN,
          hostNames \in {h \in [Levels -> SUBSET Names] :
                           \A i \in Levels : ~HasCb(i, "getPropertyNames") => h[i] = {}} :
        LET order == SelectSeq(InitRoutines, LAMBDA i : HasCb(i, "getPropertyNames"))
            log   == [k \in DOMAIN order |-> Invoke(order[k], "getPropertyNames", "done", Gen(order[k]), TRUE)]
        IN lastOp' = Observe("names", NoName, log, <<>>, "none", NoValue, mode, FALSE,
                             PropertyNames(mode, hostNames))
    /\ UNCHANGED <<cls, layout, phase, own, fnCount, privateData, written>>

(* call (577-611) and construct (496-530): entered only when the probe     *)
(* getCallData / getConstructData said Host; the first descriptor with the *)
(* callback is invoked; reaching the end is RELEASE_ASSERT_NOT_REACHED.    *)
Fatal == [k |-> "fatal", src |-> 0, id |-> 0]
Dispatch(op, cb) ==
    \E out \in CallAnswers :
        LET i == FirstWith(cb)
        IN lastOp' = IF i = 0
                     THEN Observe(op, NoName, <<>>, <<>>, "none", Fatal, FALSE, FALSE, {})
                     ELSE Observe(op, NoName, <<Invoke(i, cb, out, Gen(i), TRUE)>>, <<>>, "none",
                                  IF out = "throw" THEN Undefined ELSE HostValue(i, cb),
                                  FALSE, out = "throw", {})

Call ==
    /\ phase = "live"
    /\ GetCallData
    /\ Dispatch("call", "callAsFunction")
    /\ UNCHANGED <<cls, layout, phase, own, fnCount, privateData, written>>

Construct ==
    /\ phase = "live"
    /\ GetConstructData
    /\ Dispatch("construct", "callAsConstructor")
    /\ UNCHANGED <<cls, layout, phase, own, fnCount, privateData, written>>

(* customHasInstance (533-561): the first hasInstance answers, an         *)
(* exception does not change the returned bool; none: false.               *)
CustomHasInstance ==
    /\ phase = "live"
    /\ \E out \in IF FirstWith("hasInstance") = 0 THEN {"false"} ELSE BoolAnswers :
        LET i == FirstWith("hasInstance")
        IN lastOp' = IF i = 0
                     THEN Observe("hasInstance", NoName, <<>>, <<>>, "none", NoValue, FALSE, FALSE, {})
                     ELSE Observe("hasInstance", NoName, <<Invoke(i, "hasInstance", out, Gen(i), TRUE)>>,
                                  <<>>, "none", NoValue, Returns(out), Throws(out), {})
    /\ UNCHANGED <<cls, layout, phase, own, fnCount, privateData, written>>

(* ToPrimitive on the object: defaultValue.                                 *)
ToPrimitive ==
    /\ phase = "live"
    /\ \E h \in {h \in [Levels -> GetAnswers] :
                  \A i \in Levels : HasCb(i, "convertToType") \/ h[i] = "null"} :
        LET r == DefaultValue(1, h)
        IN lastOp' = Observe("defaultValue", NoName, r.log, <<>>, "none", r.val, FALSE, r.exc, {})
    /\ UNCHANGED <<cls, layout, phase, own, fnCount, privateData, written>>

(* setPrivate (664-667).                                                    *)
SetPrivate ==
    /\ phase = "live"
    /\ \E d \in PutValues : privateData' = d
    /\ lastOp' = NoOp
    /\ UNCHANGED <<cls, layout, phase, own, fnCount, written>>

Next ==
    \/ Create
    \/ Destroy
    \/ \E n \in Names : GetProperty(n) \/ HasProperty(n) \/ PutProperty(n) \/ DeletePropertyOp(n)
                      \/ PutByIndexOp(n)
    \/ GetPropertyNames
    \/ Call
    \/ Construct
    \/ CustomHasInstance
    \/ ToPrimitive
    \/ SetPrivate

Spec == Init /\ [][Next]_vars

-----------------------------------------------------------------------------
(* What a read can end in: a script value, or the ReferenceError or       *)
(* not-found outcome; never the empty JSValue().                           *)
ReadResults ==
    {Undefined, NotFound, ReferenceError} \cup {Data(v) : v \in PutValues}
    \cup {HostValue(i, cb) : i \in Levels, cb \in {"getProperty", "staticGet"}}
    \cup {Function(i, f) : i \in Levels, f \in 1..MaxFns}

TypeOK ==
    /\ \A i \in Levels : cls[i] \in ClassDescriptor
    /\ layout \in {"union", "separate"}
    /\ phase \in {"unborn", "live", "dead"}
    /\ own \in [Names -> [val : {NoValue} \cup {Data(v) : v \in PutValues}
                                  \cup {Function(i, f) : i \in Levels, f \in 1..MaxFns},
                            attrs : SUBSET Attributes]]
    /\ fnCount \in 0..MaxFns
    /\ privateData \in {0} \cup PutValues
    /\ lastOp.op \in {"none", "create", "destroy", "get", "has", "put", "putByIndex", "delete",
                      "names", "call", "construct", "hasInstance", "defaultValue"}
    /\ \A k \in DOMAIN lastOp.log : lastOp.log[k].at \in Levels
    /\ lastOp.op = "get" => lastOp.result \in ReadResults
    /\ written \in [Names -> {Unwritten, Deleted} \cup {Data(v) : v \in PutValues}
                             \cup {Function(i, f) : i \in Levels, f \in 1..MaxFns}]

-----------------------------------------------------------------------------
Depths(log) == [k \in DOMAIN log |-> log[k].at]
WalkOps     == {"get", "has", "put", "putByIndex", "delete", "hasInstance", "defaultValue"}
AnsweredLast(log) == \A k \in 1..(Len(log) - 1) : log[k].out \in Declines
Fresh(r)    == r \in {NotFound, ReferenceError} \/ (r.k = "fn" /\ r.id = fnCount + 1)

(***************************************************************************)
(* NoCallBelowFirstResponder: in getOwnPropertySlot, callbackGetter, put,  *)
(* deleteProperty, customHasInstance and defaultValue, the first host     *)
(* callback that answers (a value, true, or an exception) ends the walk:  *)
(* no callback of that descriptor's bases, nor any later one, runs after  *)
(* it in the same operation (spec sections 7 and 8).                       *)
(***************************************************************************)
NoCallBelowFirstResponder ==
    lastOp.op \in WalkOps => AnsweredLast(lastOp.log) /\ AnsweredLast(lastOp.fetch)

(***************************************************************************)
(* ReadYourWrites: a read that no host callback answers returns what the  *)
(* last write that no host callback answered stored (put's override       *)
(* putDirect, the parent's put), or the callable staticFunctionGetter     *)
(* cached on the previous such read; before any write it returns a fresh  *)
(* callable, a ReferenceError or nothing.  This is the own-property check *)
(* of staticFunctionGetter and of put's static-function branch working    *)
(* together with materialization across many operations.                  *)
(***************************************************************************)
ReadYourWrites ==
    [][lastOp'.op = "get" /\ NoHostAnswer(lastOp'.log) =>
        LET w == written[lastOp'.name]
            r == lastOp'.result
        IN /\ w \notin {Unwritten, Deleted} => r = w
           /\ w = Unwritten => Fresh(r)]_vars

(***************************************************************************)
(* DeleteForgets: after a delete that reported success with no host       *)
(* callback answering it, a read no host callback answers no longer       *)
(* returns what was stored before: a fresh callable or nothing (spec 4.1:  *)
(* a matching static entry is deletable unless DontDelete).                *)
(***************************************************************************)
DeleteForgets ==
    [][lastOp'.op = "get" /\ NoHostAnswer(lastOp'.log) /\ written[lastOp'.name] = Deleted
        => Fresh(lastOp'.result)]_vars

(***************************************************************************)
(* ChainOrder: a property lookup consults the descriptors in chain order, *)
(* most derived first: it never returns to a descriptor nearer the       *)
(* instance than one it already consulted (spec section 3 invariant).      *)
(***************************************************************************)
ChainOrder ==
    lastOp.op \in {"get", "has"} =>
        \A k \in 1..(Len(lastOp.log) - 1) : Depths(lastOp.log)[k] <= Depths(lastOp.log)[k + 1]

(***************************************************************************)
(* StaticSetterUsed: a put whose name first appears along the chain as a  *)
(* writable static value with a setter, with no setProperty answering    *)
(* before it, invokes that setter (spec 4.1 resolveSet).                   *)
(***************************************************************************)
FirstStatic(n) ==
    IF \E i \in Levels : cls[i].sv[n] # NoEntry \/ cls[i].sf[n] # NoEntry
    THEN CHOOSE i \in Levels : (cls[i].sv[n] # NoEntry \/ cls[i].sf[n] # NoEntry)
                              /\ \A j \in 1..(i - 1) : cls[j].sv[n] = NoEntry /\ cls[j].sf[n] = NoEntry
    ELSE 0
StaticSetterUsed ==
    lastOp.op = "put" /\ NoHostAnswer(lastOp.log) =>
        LET i == FirstStatic(lastOp.name)
        IN (i # 0 /\ cls[i].sv[lastOp.name] # NoEntry /\ SetterOf(i, lastOp.name)
            /\ "ReadOnly" \notin cls[i].sv[lastOp.name].attrs)
           => \E k \in DOMAIN lastOp.log : lastOp.log[k].cb = "staticSet" /\ lastOp.log[k].at = i

(***************************************************************************)
(* InvokedWithOwnGeneration: every host callback is called through the    *)
(* signature of its descriptor's generation (spec 4.4).                    *)
(***************************************************************************)
InvokedWithOwnGeneration ==
    \A k \in DOMAIN lastOp.log : lastOp.log[k].abi = Gen(lastOp.log[k].at)

(***************************************************************************)
(***************************************************************************)
(* The own properties implement the cells of PropertyCells: a name with   *)
(* no own property is an unresolved cell (NoSlot is JSValue() with no     *)
(* attributes), and the k-th callable made is any Function(i, k).          *)
(***************************************************************************)
FunctionsWithId(k) == {Function(i, k) : i \in Levels}
Cells == INSTANCE PropertyCells
            WITH cell <- own, made <- fnCount, Nothing <- NoValue, MaxMade <- MaxFns,
                 Values <- {Data(v) : v \in PutValues}, Callables <- FunctionsWithId

(***************************************************************************)
(* CellsRefined: across every sequence of get, put, putByIndex and delete, *)
(* the own properties change only as PropertyCells allows: a static      *)
(* function is materialized once, into an empty name, as a fresh callable *)
(* (staticFunctionGetter's own check); a write never replaces a read-only *)
(* property nor drops its attributes (put's own check before putDirect,   *)
(* lines 342-346); a delete never removes a DontDelete one.                *)
(***************************************************************************)
CellsRefined == Cells!Spec

(***************************************************************************)
(* ValueFromResponder: when hasProperty of the descriptor at depth i says  *)
(* yes, a value the read returns is that descriptor's getProperty value; *)
(* otherwise the read throws (spec.md 4.1 step 1, and section 8:         *)
(* "hasProperty returns true and getProperty is absent, reading the       *)
(* property throws a ReferenceError").  callbackGetter instead returns    *)
(* the first value any getProperty of the chain gives, asking again from  *)
(* classRef() (lines 770-790).                                              *)
(***************************************************************************)
ValueFromResponder ==
    lastOp.op = "get" /\ lastOp.via = "callback" =>
        lastOp.result \in {HostValue(lastOp.log[Len(lastOp.log)].at, "getProperty"),
                           Undefined, ReferenceError}

(***************************************************************************)
(* IndexPutAgrees: obj[0] = v and obj["0"] = v are one [[Set]]: with the  *)
(* same host answers putByIndex leaves the own properties and returns what *)
(* put does, so an index-named static value is written through its setter *)
(* exactly as a named one is.                                              *)
(***************************************************************************)
IndexPutAgrees ==
    lastOp.op = "putByIndex" => lastOp.alt = [own |-> own, ret |-> lastOp.ret, exc |-> lastOp.exc]

=============================================================================
