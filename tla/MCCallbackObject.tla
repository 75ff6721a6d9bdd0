-------------------------- MODULE MCCallbackObject --------------------------
(***************************************************************************)
(* Model-checking instances of CallbackObject: the descriptor chains each *)
(* run ranges over.  Every chain has the configured Depth; a descriptor   *)
(* at each depth ranges independently over the run's descriptor set.      *)
(***************************************************************************)
EXTENDS CallbackObject

(* Every answer a property callback can give.                              *)
AllResponses == HasAnswers \cup GetAnswers \cup BoolAnswers
(* Hosts that only decline, at every depth.                                 *)
DeclineOnly == [i \in Levels |-> Declines]
(* Any answer from the descriptor nearest the instance, declines from its *)
(* bases: an answer at the last depth has nothing after it to call.        *)
AnswerAtTop == [i \in Levels |-> IF i = 1 THEN AllResponses ELSE Declines]
(* Any answer at any depth.                                                 *)
AnswerAnywhere == [i \in Levels |-> AllResponses]

PropertyCallbacks == {"hasProperty", "getProperty", "setProperty", "deleteProperty"}

(* Static entries that tell put's, getOwnPropertySlot's and                *)
(* deleteProperty's branches apart: read/write, read-only, write-only      *)
(* undeletable values; plain, read-only undeletable and NULL-callback      *)
(* functions.                                                              *)
MCStaticValues ==
    {NoEntry,
     [get |-> TRUE,  set |-> TRUE,  attrs |-> {}],
     [get |-> TRUE,  set |-> FALSE, attrs |-> {"ReadOnly"}],
     [get |-> FALSE, set |-> TRUE,  attrs |-> {"DontDelete"}]}
MCStaticFunctions ==
    {NoEntry,
     [fn |-> TRUE,  attrs |-> {}],
     [fn |-> TRUE,  attrs |-> {"ReadOnly", "DontDelete"}],
     [fn |-> FALSE, attrs |-> {}]}

(* Coherence of own properties: every static entry shape, with or without *)
(* the four property callbacks (which then only decline).                  *)
CoherenceChains ==
    [Levels -> [ver : {0}, cbs : {{}, PropertyCallbacks},
                sv : [Names -> MCStaticValues], sf : [Names -> MCStaticFunctions]]]

(* Walk protocol: every host answer of the first descriptor, with fewer  *)
(* static shapes; each descriptor has no property callbacks, all but      *)
(* hasProperty, or all four.                                               *)
ProtocolDescriptor ==
    [ver : {0},
     cbs : {{}, PropertyCallbacks \ {"hasProperty"}, PropertyCallbacks},
     sv : [Names -> {NoEntry, [get |-> TRUE, set |-> TRUE, attrs |-> {}]}],
     sf : [Names -> {NoEntry, [fn |-> TRUE, attrs |-> {}]}]]
ProtocolChains == [Levels -> ProtocolDescriptor]

(* Extended-generation descriptors with setProperty and a writable static *)
(* value: the put path of line 321-328.                                    *)
ExtendedChains ==
    [Levels -> [ver : {1000}, cbs : {{"setProperty"}},
                sv : [Names -> {NoEntry, [get |-> TRUE, set |-> TRUE, attrs |-> {}]}],
                sf : [Names -> {NoEntry}]]]

(* Dispatch and lifecycle: initialize/finalize in any combination, with    *)
(* call + hasInstance, or construct + convertToType + getPropertyNames.     *)
DispatchChains ==
    [Levels -> [ver : {0},
                cbs : {s \cup l : s \in {{}, {"callAsFunction", "hasInstance"},
                                         {"callAsConstructor", "convertToType", "getPropertyNames"}},
                                   l \in SUBSET {"initialize", "finalize"}},
                sv : [Names -> {NoEntry}], sf : [Names -> {NoEntry}]]]

(* The operations that change own properties or read them back.  has,    *)
(* names, call, construct, hasInstance, defaultValue and setPrivate leave  *)
(* own, fnCount and written unchanged; they change only the observation   *)
(* record and the private data, which the coherence properties do not     *)
(* read.  Leaving them out of the coherence run removes their interleavings *)
(* and nothing those properties can tell apart.                            *)
OwnNext ==
    \/ Create
    \/ Destroy
    \/ \E n \in Names : GetProperty(n) \/ PutProperty(n) \/ PutByIndexOp(n) \/ DeletePropertyOp(n)
OwnSpec == Init /\ [][OwnNext]_vars

(* The operations whose walks reach property callbacks: the protocol     *)
(* chains have no other callbacks, so names, call, construct, hasInstance, *)
(* defaultValue and setPrivate invoke none there.                          *)
WalkNext == OwnNext \/ \E n \in Names : HasProperty(n)
WalkSpec == Init /\ [][WalkNext]_vars

(* The walk and dispatch run: both chain sets.  On the protocol chains    *)
(* names, call, construct, hasInstance, defaultValue and setPrivate reach  *)
(* no callback, so they are taken only on the dispatch chains.             *)
WalkOrDispatchChains == ProtocolChains \cup DispatchChains
WalkOrDispatchNext == IF cls \in DispatchChains THEN Next ELSE WalkNext
WalkOrDispatchSpec == Init /\ [][WalkOrDispatchNext]_vars

=============================================================================
