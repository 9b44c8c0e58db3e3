------------------------ MODULE ReasoningToolsProofs ------------------------
(***************************************************************************)
(* For any threads, texts, calls and sizes: the MCP tools answer the query *)
(* they were asked, over the text they name, and accept what they register.*)
(*                                                                         *)
(* The shared state keeps two things true: a cached KB holds the query of  *)
(* its own text, and a registered KB parses and is not too long.  The rest *)
(* is what a thread has resolved, which no other thread can touch.         *)
(***************************************************************************)
EXTENDS ReasoningTools, FiniteSetTheorems, TLAPS

CacheInv == \A t \in DOMAIN parsed : parsed[t] = t.query

Acceptable(t) == t \in Text /\ t # Blank /\ Valid(t) /\ ~TooLong(t)

RegistryInv == \A i \in DOMAIN kbs : Acceptable(kbs[i])

\* A text that reason, resolving it again, finds to be itself.
Settled(t) == t \in Text /\ (t # Blank \/ t = Preloaded)

\* The query a call asks over t.
Wanted(o, t) == IF o.query # NoQuery THEN o.query ELSE t.query

\* The calls RegisteredKbsAreAccepted is about, and the errors it excludes.
NamesKb(o) ==
  /\ o.tool \in ReasonTools /\ o.id # NoId
  /\ {o.knowledge, o.delta} = {NoText} /\ o.mods = NoMods

NotAccepted == {"size", "parse", "no knowledge"}

\* A call on its way has returned nothing, and a tool that reasons has settled
\* on its text.
CallInv ==
  \A c \in Client :
    /\ pc[c] # "idle" => result[c] = NoResult
    /\ pc[c] = "resolve" => call[c].tool \in ReasonTools \cup {"check_kb"}
    /\ pc[c] \in {"register", "unregister", "list"} => call[c].tool \notin ReasonTools
    /\ pc[c] \in {"reason", "reason again"} =>
         /\ call[c].tool \in ReasonTools /\ Settled(text[c])
         /\ NamesKb(call[c]) => Acceptable(text[c])

\* The first half of a what_if answered over the text both halves use.
BeforeInv ==
  \A c \in Client : pc[c] = "reason again" =>
    /\ call[c].tool = "what_if" /\ before[c].error # "raised"
    /\ before[c].error = "none" =>
         before[c].over = text[c] /\ before[c].query = Wanted(call[c], text[c])
    /\ NamesKb(call[c]) => before[c].error \notin NotAccepted

\* What a call returned: the four properties, of one result.
Fine(o, r) ==
  /\ r.over # NoText /\ r.error = "none" =>
       /\ r.identity = r.over /\ r.over \in Text /\ r.query = Wanted(o, r.over)
       /\ o.tool = "what_if" =>
            (Modified(r.over, o.mods) # Blank => r.after = Modified(r.over, o.mods))
  /\ NamesKb(o) => r.error \notin NotAccepted

ResultInv == \A c \in Client : Fine(call[c], result[c])

ToolsInv ==
  TypeOK /\ CacheInv /\ RegistryInv /\ CallInv /\ BeforeInv /\ ResultInv

----------------------------------------------------------------------------
(* The operators.                                                          *)

LEMMA BlankIsText == Blank \in Text
BY DEF Blank, Text

LEMMA MergeFine ==
  ASSUME NEW t \in Text, NEW d \in Text, t # Blank
  PROVE  Merge(t, d) \in Text /\ Merge(t, d) # Blank
<1>1. Merge(t, d) \in Text
  BY DEF Merge, Text
<1>2. CASE t.lines # {}
  BY <1>1, <1>2 DEF Merge, Blank
<1>3. CASE t.lines = {}
  <2>1. t.query # NoQuery
    BY <1>3 DEF Text, Blank
  <2>2. Merge(t, d).query # NoQuery
    BY <2>1 DEF Merge
  <2>3. QED
    BY <1>1, <2>2 DEF Blank
<1>4. QED
  BY <1>2, <1>3

LEMMA ModifiedFine ==
  ASSUME NEW t \in Text, NEW o \in CallType
  PROVE  /\ Modified(t, o.mods) \in Text
         /\ o.mods = NoMods => Modified(t, o.mods) = t
<1>1. o.mods.add \in SUBSET Line /\ o.mods.remove \in SUBSET Line
  BY DEF CallType
<1>2. Modified(t, o.mods) \in Text
  BY <1>1 DEF Modified, Text
<1>3. ASSUME o.mods = NoMods PROVE Modified(t, o.mods) = t
  BY <1>3 DEF Modified, NoMods, Text
<1>4. QED
  BY <1>2, <1>3

\* reason finds a settled text to be itself.
LEMMA ResolveSettled ==
  ASSUME NEW t, Settled(t)
  PROVE  Resolve(t, NoId, NoText) = Found(t)
BY ToolsAssumption, BlankIsText DEF Settled, Resolve, Found, NotFound

\* Whatever a tool resolves is settled, and a registered KB without a delta
\* is what was registered.
LEMMA ResolveFine ==
  ASSUME TypeOK, RegistryInv, NEW o \in CallType
  PROVE  LET r == Resolve(o.knowledge, o.id, o.delta)
         IN  /\ r = Found(r.text) \/ r = NotFound(r.error)
             /\ r.error \in {"none", "kb_id", "delta size", "delta", "no knowledge"}
             /\ r.error = "none" => Settled(r.text)
             /\ NamesKb(o) => /\ r.error \notin NotAccepted
                              /\ r.error = "none" => Acceptable(r.text)
<1> USE ToolsAssumption, BlankIsText
<1> DEFINE r == Resolve(o.knowledge, o.id, o.delta)
<1>1. /\ o.knowledge \in Text \cup {NoText} /\ o.delta \in Text \cup {NoText}
      /\ o.id \in KbId \cup {BadId, NoId}
  BY DEF CallType
<1>2. NamesKb(o) => o.knowledge = NoText /\ o.delta = NoText /\ o.id # NoId
  BY DEF NamesKb
<1>3. CASE o.knowledge \notin {NoText, Blank}
  BY <1>1, <1>2, <1>3 DEF Resolve, Found, Settled
<1>4. CASE o.knowledge \in {NoText, Blank} /\ o.id # NoId
  <2>1. CASE o.id \notin DOMAIN kbs
    BY <1>4, <2>1 DEF Resolve, NotFound, NotAccepted
  <2>2. CASE o.id \in DOMAIN kbs /\ o.delta \in {NoText, Blank}
    <3>1. r = Found(kbs[o.id])
      BY <1>4, <2>2 DEF Resolve
    <3>2. Acceptable(kbs[o.id]) /\ Settled(kbs[o.id])
      BY <2>2 DEF RegistryInv, Acceptable, Settled
    <3>3. QED
      BY <3>1, <3>2 DEF Found, NotAccepted
  <2>3. CASE o.id \in DOMAIN kbs /\ o.delta \notin {NoText, Blank}
    <3>1. Merge(kbs[o.id], o.delta) \in Text /\ Merge(kbs[o.id], o.delta) # Blank
      BY <1>1, <2>3, MergeFine DEF RegistryInv, Acceptable
    <3>2. ~NamesKb(o)
      BY <1>2, <2>3
    <3>3. QED
      BY <1>4, <2>3, <3>1, <3>2 DEF Resolve, Found, NotFound, Settled
  <2>4. QED
    BY <2>1, <2>2, <2>3
<1>5. CASE o.knowledge \in {NoText, Blank} /\ o.id = NoId
  BY <1>2, <1>5 DEF Resolve, Found, NotFound, Settled
<1>6. QED
  BY <1>3, <1>4, <1>5

\* What reason makes of a text: an answer to the query asked over it, or an
\* error and nothing.
LEMMA OutcomesFine ==
  ASSUME TypeOK, CacheInv, NEW t \in Text, NEW o \in CallType,
         NEW r \in ReasonOutcomes(t, o)
  PROVE  /\ r \in Results
         /\ r.error # "none" => r.over = NoText
         /\ Settled(t) /\ r.error = "none" =>
              r.identity = t /\ r.over = t /\ r.query = Wanted(o, t)
         /\ Acceptable(t) => r.error \notin NotAccepted
<1> USE ToolsAssumption, BlankIsText
<1> DEFINE s == Resolve(t, NoId, NoText)
<1>1. \/ s = Found(s.text) /\ s.text \in Text /\ s.error = "none"
      \/ s = NotFound("no knowledge") /\ s.error = "no knowledge"
  BY DEF Resolve, Found, NotFound
<1>2. Settled(t) => s = Found(t)
  BY ResolveSettled
<1>3. ASSUME NEW u \in Text
      PROVE  /\ Asked(u, o.query) = Wanted(o, u)
             /\ Wanted(o, u) \in Query \cup {NoQuery}
             /\ ReasonErrors(u, o) \subseteq Errors
             /\ Acceptable(u) => ReasonErrors(u, o) \cap NotAccepted = {}
  <2>1. Asked(u, o.query) = Wanted(o, u)
    BY DEF Asked, Wanted, CacheInv
  <2>2. Wanted(o, u) \in Query \cup {NoQuery}
    BY DEF Wanted, Text, CallType
  <2>3. ReasonErrors(u, o) \subseteq Errors
    BY DEF ReasonErrors, Errors
  <2>4. Acceptable(u) => ReasonErrors(u, o) \cap NotAccepted = {}
    BY DEF ReasonErrors, NotAccepted, Acceptable
  <2>5. QED
    BY <2>1, <2>2, <2>3, <2>4
<1>4. CASE s.error # "none"
  <2>1. r = Result("no knowledge", NoText, NoText, NoQuery, NoText)
    <3>1. s.error = "no knowledge"
      BY <1>1, <1>4
    <3>2. QED
      BY <1>4, <3>1 DEF ReasonOutcomes
  <2>2. ~Settled(t) /\ ~Acceptable(t)
    BY <1>2, <1>4 DEF Found, Acceptable, Settled
  <2>3. QED
    BY <2>1, <2>2 DEF Result, Results, Errors
<1>5. CASE s.error = "none"
  <2>1. s = Found(s.text) /\ s.text \in Text
    BY <1>1, <1>5
  <2>2. PICK e \in ReasonErrors(s.text, o) :
          r = IF e = "none"
                THEN Result("none", s.text, s.text, Asked(s.text, o.query), NoText)
                ELSE Result(e, s.text, NoText, NoQuery, NoText)
    BY <1>5 DEF ReasonOutcomes
  <2>3. r \in Results
    BY <1>3, <2>1, <2>2 DEF Result, Results, Errors
  <2>4. r.error = e /\ (e # "none" => r.over = NoText)
    BY <2>2 DEF Result
  <2>5. Settled(t) => s.text = t
    BY <1>2 DEF Found
  <2>6. e = "none" => r.identity = s.text /\ r.over = s.text /\ r.query = Wanted(o, s.text)
    BY <1>3, <2>1, <2>2 DEF Result
  <2>7. Acceptable(t) => Settled(t)
    BY DEF Acceptable, Settled
  <2>8. QED
    BY <1>3, <2>1, <2>3, <2>4, <2>5, <2>6, <2>7
<1>6. QED
  BY <1>4, <1>5

LEMMA ParsesText ==
  ASSUME NEW t \in Text
  PROVE  ReasonParses(t) \subseteq Text
BY ToolsAssumption, BlankIsText DEF ReasonParses, Resolve, Found, NotFound

\* The cache keeps each text's own query, whoever asks what over it.
LEMMA CacheFine ==
  ASSUME TypeOK, CacheInv, NEW ts \in SUBSET Text, NEW q, ParseCached(ts, q)
  PROVE  /\ CacheInv'
         /\ DOMAIN parsed' \subseteq Text /\ Cardinality(DOMAIN parsed') <= MaxParsed
         /\ \A t \in DOMAIN parsed' : parsed'[t] \in Query \cup {NoQuery}
<1> DEFINE fresh == {t \in ts : Valid(t)}
<1> DEFINE entries == DOMAIN parsed \cup fresh
<1>1. PICK kept \in SUBSET entries :
        /\ Evict(entries, kept)
        /\ parsed' = [u \in kept |-> IF u \in fresh THEN QueryKept(u, q) ELSE parsed[u]]
  BY DEF ParseCached
<1>2. kept \subseteq Text
  BY DEF TypeOK
<1>3. \A u \in kept : parsed'[u] = u.query
  BY <1>1 DEF QueryKept, CacheInv
<1>4. DOMAIN parsed' = kept
  BY <1>1
<1>5. Cardinality(kept) <= MaxParsed
  BY <1>1, ToolsAssumption DEF Evict
<1>6. \A u \in Text : u.query \in Query \cup {NoQuery}
  BY DEF Text
<1>7. QED
  BY <1>2, <1>3, <1>4, <1>5, <1>6 DEF CacheInv

----------------------------------------------------------------------------
(* The steps.                                                              *)

\* The type invariant, by who changes what.
SharedOK ==
  /\ DOMAIN kbs \subseteq KbId /\ \A i \in DOMAIN kbs : kbs[i] \in Text
  /\ DOMAIN parsed \subseteq Text /\ Cardinality(DOMAIN parsed) <= MaxParsed
  /\ \A t \in DOMAIN parsed : parsed[t] \in Query \cup {NoQuery}

CountsOK == callsTotal \in [Tools -> Nat] /\ errorsTotal \in [Tools -> Nat]

Places == {"idle", "resolve", "reason", "reason again", "register", "unregister", "list"}

ThreadsOK ==
  /\ pc \in [Client -> Places] /\ call \in [Client -> CallType]
  /\ text \in [Client -> Text \cup {NoText}]
  /\ before \in [Client -> Results] /\ result \in [Client -> Results]
  /\ made \in Nat

ThreadsInv == ThreadsOK /\ CallInv /\ BeforeInv /\ ResultInv

LEMMA TypeParts == TypeOK <=> SharedOK /\ CountsOK /\ ThreadsOK
BY DEF TypeOK, SharedOK, CountsOK, ThreadsOK, Places

LEMMA TypePartsNext == TypeOK' <=> SharedOK' /\ CountsOK' /\ ThreadsOK'
BY DEF TypeOK, SharedOK, CountsOK, ThreadsOK, Places

LEMMA LogFine ==
  ASSUME CountsOK, NEW returned, NEW erring, Log(returned, erring)
  PROVE  CountsOK'
BY DEF CountsOK, Log

LEMMA NoResultFine == NoResult \in Results /\ \A o \in CallType : Fine(o, NoResult)
BY DEF NoResult, Result, Results, Errors, Fine, NotAccepted

\* An error answers nothing; it is fine unless a registered KB must not have it.
LEMMA RefusalFine ==
  ASSUME NEW e \in Errors, NEW t \in Text \cup {NoText}, NEW o \in CallType,
         NamesKb(o) => e \notin NotAccepted
  PROVE  Refusal(e, t) \in Results /\ Fine(o, Refusal(e, t))
BY DEF Refusal, Result, Results, Fine

\* A call that returns something fine leaves its thread in order.
LEMMA ReturnFine ==
  ASSUME ThreadsInv, NEW c \in Client, NEW r \in Results, Fine(call[c], r),
         Return(c, r)
  PROVE  ThreadsInv'
<1> USE DEF ThreadsInv, ThreadsOK, Return
<1>1. ThreadsOK'
  BY NoResultFine DEF Places
<1>2. CallInv'
  BY DEF CallInv
<1>3. BeforeInv'
  BY DEF BeforeInv
<1>4. ResultInv'
  BY DEF ResultInv
<1>5. QED
  BY <1>1, <1>2, <1>3, <1>4

LEMMA InitFine == Init => ToolsInv
<1> SUFFICES ASSUME Init PROVE ToolsInv
  OBVIOUS
<1> USE ToolsAssumption, NoResultFine DEF Init
<1>1. SharedOK
  <2>1. DOMAIN kbs = {} /\ DOMAIN parsed = {}
    OBVIOUS
  <2>2. Cardinality({}) = 0
    BY FS_EmptySet
  <2>3. QED
    BY <2>1, <2>2 DEF SharedOK
<1>2. CountsOK
  BY DEF CountsOK
<1>3. \A c \in Client : call[c] \in CallType
  BY DEF CallType, Tools, NoMods
<1>4. ThreadsOK
  BY <1>3 DEF ThreadsOK, Places
<1>5. CallInv /\ BeforeInv
  BY DEF CallInv, BeforeInv
<1>6. ResultInv
  BY <1>3 DEF ResultInv
<1>7. CacheInv /\ RegistryInv
  BY DEF CacheInv, RegistryInv
<1>8. QED
  BY <1>1, <1>2, <1>4, <1>5, <1>6, <1>7, TypeParts DEF ToolsInv

LEMMA InvokeFine ==
  ASSUME ToolsInv, NEW c \in Client, NEW o \in Calls, Invoke(c, o)
  PROVE  ToolsInv'
<1> USE ToolsAssumption DEF Invoke
<1>1. o \in CallType /\ SharedOK /\ CountsOK /\ ThreadsOK
  BY TypeParts DEF ToolsInv
<1>2. FirstStep(o.tool) \in Places /\ FirstStep(o.tool) \notin {"idle", "reason", "reason again"}
  BY DEF FirstStep, Places
<1>3. /\ FirstStep(o.tool) = "resolve" => o.tool \in ReasonTools \cup {"check_kb"}
      /\ FirstStep(o.tool) \in {"register", "unregister", "list"} => o.tool \notin ReasonTools
  BY <1>1 DEF FirstStep, CallType, Tools, ReasonTools
<1>4. SharedOK' /\ CountsOK' /\ CacheInv' /\ RegistryInv'
  BY <1>1 DEF SharedOK, CountsOK, ToolsInv, CacheInv, RegistryInv
<1>5. ThreadsOK'
  <2>1. /\ pc' = [pc EXCEPT ![c] = FirstStep(o.tool)] /\ call' = [call EXCEPT ![c] = o]
        /\ result' = [result EXCEPT ![c] = NoResult] /\ made' = made + 1
        /\ UNCHANGED <<text, before>>
    OBVIOUS
  <2>2. NoResult \in Results
    BY NoResultFine
  <2>3. pc' \in [Client -> Places] /\ call' \in [Client -> CallType]
    BY <1>1, <1>2, <2>1 DEF ThreadsOK
  <2>4. QED
    BY <1>1, <2>1, <2>2, <2>3 DEF ThreadsOK
<1>6. CallInv'
  BY <1>1, <1>2, <1>3 DEF ToolsInv, CallInv, ThreadsOK
<1>7. BeforeInv'
  BY <1>1, <1>2 DEF ToolsInv, BeforeInv, ThreadsOK
<1>8. ResultInv'
  BY <1>1, NoResultFine DEF ToolsInv, ResultInv, ThreadsOK
<1>9. QED
  BY <1>4, <1>5, <1>6, <1>7, <1>8, TypePartsNext DEF ToolsInv

LEMMA ResolveKbFine ==
  ASSUME ToolsInv, NEW c \in Client, ResolveKb(c)
  PROVE  ToolsInv'
<1> DEFINE o == call[c]
           r == Resolve(o.knowledge, o.id, o.delta)
<1>1. SharedOK /\ CountsOK /\ ThreadsInv /\ o \in CallType
  BY TypeParts DEF ToolsInv, ThreadsInv, ThreadsOK
<1>2. pc[c] = "resolve" /\ o.tool \in ReasonTools \cup {"check_kb"} /\ UNCHANGED kbs
  BY DEF ResolveKb, ToolsInv, CallInv
<1>3. /\ r = Found(r.text) \/ r = NotFound(r.error)
      /\ r.error \in {"none", "kb_id", "delta size", "delta", "no knowledge"}
      /\ r.error = "none" => Settled(r.text)
      /\ NamesKb(o) => /\ r.error \notin NotAccepted
                       /\ r.error = "none" => Acceptable(r.text)
  BY <1>1, ResolveFine DEF ToolsInv
<1>4. RegistryInv'
  BY <1>2 DEF ToolsInv, RegistryInv
<1>5. ASSUME NEW q, Return(c, q), LogTool(c, q),
             ParseCached(IF q.error = "form" THEN {r.text} ELSE {}, NoQuery),
             \/ r.error # "none" /\ q = Refusal(r.error, NoText)
             \/ r.error = "none" /\ q = Refusal("form", r.text)
             \/ r.error = "none" /\ q = Refusal("none", r.text)
      PROVE  ToolsInv'
  <2>1. r.error = "none" => r.text \in Text
    BY <1>3 DEF Settled
  <2>2. q \in Results /\ Fine(o, q)
    <3>1. CASE r.error # "none" /\ q = Refusal(r.error, NoText)
      BY <1>1, <1>3, <3>1, RefusalFine DEF Errors
    <3>2. CASE r.error = "none" /\ q \in {Refusal("form", r.text), Refusal("none", r.text)}
      <4>1. "form" \in Errors \ NotAccepted /\ "none" \in Errors \ NotAccepted
        BY DEF Errors, NotAccepted
      <4>2. QED
        BY <1>1, <2>1, <3>2, <4>1, RefusalFine
    <3>3. QED
      BY <1>5, <3>1, <3>2
  <2>3. ThreadsInv'
    BY <1>1, <1>5, <2>2, ReturnFine
  <2>4. CountsOK'
    BY <1>1, <1>5, LogFine DEF LogTool
  <2>5. q.error = "form" => r.error = "none"
    <3>1. r.error # "none" => q = Refusal(r.error, NoText)
      BY <1>5
    <3>2. r.error # "none" => q.error = r.error
      BY <3>1 DEF Refusal, Result
    <3>3. r.error # "form"
      BY <1>3
    <3>4. QED
      BY <3>2, <3>3
  <2>6. (IF q.error = "form" THEN {r.text} ELSE {}) \in SUBSET Text
    BY <2>1, <2>5
  <2>7. CacheInv' /\ SharedOK'
    BY <1>1, <1>2, <1>5, <2>6, CacheFine DEF ToolsInv, SharedOK
  <2>8. QED
    BY <1>4, <2>3, <2>4, <2>7, TypePartsNext DEF ToolsInv, ThreadsInv
<1>6. ASSUME r.error = "none", o.tool # "check_kb",
             text' = [text EXCEPT ![c] = r.text], pc' = [pc EXCEPT ![c] = "reason"],
             UNCHANGED <<parsed, callsTotal, errorsTotal, call, before, result, made>>
      PROVE  ToolsInv'
  <2>1. o.tool \in ReasonTools
    BY <1>2, <1>6
  <2>2. ThreadsOK'
    BY <1>1, <1>3, <1>6 DEF ThreadsInv, ThreadsOK, Places, Settled
  <2>3. CallInv'
    BY <1>1, <1>2, <1>3, <1>6, <2>1 DEF ThreadsInv, ThreadsOK, CallInv
  <2>4. BeforeInv' /\ ResultInv'
    BY <1>1, <1>6 DEF ThreadsInv, ThreadsOK, BeforeInv, ResultInv
  <2>5. SharedOK' /\ CountsOK' /\ CacheInv'
    BY <1>1, <1>2, <1>6 DEF ToolsInv, SharedOK, CountsOK, CacheInv
  <2>6. QED
    BY <1>4, <2>2, <2>3, <2>4, <2>5, TypePartsNext DEF ToolsInv
<1>7. QED
  BY <1>5, <1>6 DEF ResolveKb

LEMMA ReasonFine ==
  ASSUME ToolsInv, NEW c \in Client, Reason(c)
  PROVE  ToolsInv'
<1> DEFINE o == call[c]
           t == text[c]
<1>1. SharedOK /\ CountsOK /\ ThreadsInv /\ o \in CallType
  BY TypeParts DEF ToolsInv, ThreadsInv, ThreadsOK
<1>2. /\ pc[c] = "reason" /\ o.tool \in ReasonTools /\ Settled(t) /\ t \in Text
      /\ NamesKb(o) => Acceptable(t)
      /\ result[c] = NoResult /\ UNCHANGED kbs
  BY DEF Reason, ToolsInv, CallInv, Settled
<1>3. SharedOK' /\ CacheInv' /\ RegistryInv'
  <2>1. ParseCached(ReasonParses(t), o.query)
    BY DEF Reason, KbSource
  <2>2. QED
    BY <1>1, <1>2, <2>1, ParsesText, CacheFine DEF ToolsInv, SharedOK, RegistryInv
<1>4. PICK r \in ReasonOutcomes(t, o) :
        \/ r.error = "raised" /\ Return(c, r) /\ UNCHANGED <<callsTotal, errorsTotal>>
        \/ /\ r.error # "raised" /\ o.tool # "what_if"
           /\ Return(c, [r EXCEPT !.identity = t])
           /\ \E returned, erring : Log(returned, erring)
        \/ /\ r.error # "raised" /\ o.tool = "what_if"
           /\ before' = [before EXCEPT ![c] = r]
           /\ pc' = [pc EXCEPT ![c] = "reason again"]
           /\ \E returned, erring : Log(returned, erring)
           /\ UNCHANGED <<text, call, result, made>>
  BY DEF Reason, KbSource
<1>5. /\ r \in Results
      /\ r.error # "none" => r.over = NoText
      /\ r.error = "none" => r.identity = t /\ r.over = t /\ r.query = Wanted(o, t)
      /\ NamesKb(o) => r.error \notin NotAccepted
  BY <1>1, <1>2, OutcomesFine DEF ToolsInv
<1>6. CASE r.error = "raised" /\ Return(c, r) /\ UNCHANGED <<callsTotal, errorsTotal>>
  <2>1. Fine(o, r)
    BY <1>5, <1>6 DEF Fine
  <2>2. ThreadsInv'
    BY <1>1, <1>5, <1>6, <2>1, ReturnFine
  <2>3. CountsOK'
    BY <1>1, <1>6 DEF CountsOK
  <2>4. QED
    BY <1>3, <2>2, <2>3, TypePartsNext DEF ToolsInv, ThreadsInv
<1>7. CASE /\ r.error # "raised" /\ o.tool # "what_if"
           /\ Return(c, [r EXCEPT !.identity = t])
           /\ \E returned, erring : Log(returned, erring)
  <2> DEFINE w == [r EXCEPT !.identity = t]
  <2>1. /\ w \in Results /\ w.identity = t /\ w.over = r.over /\ w.error = r.error
        /\ w.query = r.query
    BY <1>2, <1>5 DEF Results
  <2>2. Fine(o, w)
    BY <1>2, <1>5, <1>7, <2>1 DEF Fine
  <2>3. ThreadsInv'
    BY <1>1, <1>7, <2>1, <2>2, ReturnFine
  <2>4. CountsOK'
    BY <1>1, <1>7, LogFine
  <2>5. QED
    BY <1>3, <2>3, <2>4, TypePartsNext DEF ToolsInv, ThreadsInv
<1>8. CASE /\ r.error # "raised" /\ o.tool = "what_if"
           /\ before' = [before EXCEPT ![c] = r]
           /\ pc' = [pc EXCEPT ![c] = "reason again"]
           /\ \E returned, erring : Log(returned, erring)
           /\ UNCHANGED <<text, call, result, made>>
  <2>1. ThreadsOK'
    BY <1>1, <1>5, <1>8 DEF ThreadsInv, ThreadsOK, Places
  <2>2. CallInv' /\ ResultInv'
    BY <1>1, <1>2, <1>8 DEF ThreadsInv, ThreadsOK, CallInv, ResultInv
  <2>3. BeforeInv'
    BY <1>1, <1>5, <1>8 DEF ThreadsInv, ThreadsOK, BeforeInv
  <2>4. CountsOK'
    BY <1>1, <1>8, LogFine
  <2>5. QED
    BY <1>3, <2>1, <2>2, <2>3, <2>4, TypePartsNext DEF ToolsInv
<1>9. QED
  BY <1>4, <1>6, <1>7, <1>8

LEMMA ReasonAgainFine ==
  ASSUME ToolsInv, NEW c \in Client, ReasonAgain(c)
  PROVE  ToolsInv'
<1> DEFINE o == call[c]
           t == text[c]
           modified == Modified(t, o.mods)
           b == before[c]
<1>1. SharedOK /\ CountsOK /\ ThreadsInv /\ o \in CallType /\ b \in Results
  BY TypeParts DEF ToolsInv, ThreadsInv, ThreadsOK
<1>2. /\ pc[c] = "reason again" /\ o.tool \in ReasonTools /\ Settled(t) /\ t \in Text
      /\ NamesKb(o) => Acceptable(t)
      /\ UNCHANGED kbs
  BY DEF ReasonAgain, ToolsInv, CallInv, Settled
<1>3. /\ b.error # "raised"
      /\ b.error = "none" => b.over = t /\ b.query = Wanted(o, t)
      /\ NamesKb(o) => b.error \notin NotAccepted
  BY <1>2 DEF ToolsInv, BeforeInv
<1>4. modified \in Text /\ (NamesKb(o) => modified = t)
  BY <1>1, <1>2, ModifiedFine DEF NamesKb
<1>5. SharedOK' /\ CacheInv' /\ RegistryInv'
  <2>1. ParseCached(ReasonParses(modified) \cup {t}, o.query)
    BY DEF ReasonAgain, KbSource
  <2>2. ReasonParses(modified) \cup {t} \in SUBSET Text
    BY <1>2, <1>4, ParsesText
  <2>3. QED
    BY <1>1, <1>2, <2>1, <2>2, CacheFine DEF ToolsInv, SharedOK, RegistryInv
<1>6. PICK r \in ReasonOutcomes(modified, o) :
        \/ r.error = "raised" /\ Return(c, r) /\ UNCHANGED <<callsTotal, errorsTotal>>
        \/ /\ r.error # "raised"
           /\ Return(c, Result(IF b.error # "none" THEN b.error ELSE r.error,
                               t, b.over, b.query, r.over))
           /\ \E returned, erring : Log(returned, erring)
  BY DEF ReasonAgain, KbSource
<1>7. /\ r \in Results
      /\ r.error # "none" => r.over = NoText
      /\ modified # Blank /\ r.error = "none" => r.over = modified
      /\ NamesKb(o) => r.error \notin NotAccepted
  <2>1. /\ r \in Results
        /\ r.error # "none" => r.over = NoText
        /\ Settled(modified) /\ r.error = "none" => r.over = modified
        /\ Acceptable(modified) => r.error \notin NotAccepted
    BY <1>1, <1>4, <1>6, OutcomesFine DEF ToolsInv
  <2>2. modified # Blank => Settled(modified)
    BY <1>4 DEF Settled
  <2>3. NamesKb(o) => Acceptable(modified)
    BY <1>2, <1>4
  <2>4. QED
    BY <2>1, <2>2, <2>3
<1>8. CASE r.error = "raised" /\ Return(c, r) /\ UNCHANGED <<callsTotal, errorsTotal>>
  <2>1. Fine(o, r)
    BY <1>7, <1>8 DEF Fine
  <2>2. ThreadsInv'
    BY <1>1, <1>7, <1>8, <2>1, ReturnFine
  <2>3. CountsOK'
    BY <1>1, <1>8 DEF CountsOK
  <2>4. QED
    BY <1>5, <2>2, <2>3, TypePartsNext DEF ToolsInv, ThreadsInv
<1>9. CASE /\ r.error # "raised"
           /\ Return(c, Result(IF b.error # "none" THEN b.error ELSE r.error,
                               t, b.over, b.query, r.over))
           /\ \E returned, erring : Log(returned, erring)
  <2> DEFINE e == IF b.error # "none" THEN b.error ELSE r.error
             w == Result(e, t, b.over, b.query, r.over)
  <2>1. /\ w.error = e /\ w.identity = t /\ w.over = b.over /\ w.query = b.query
        /\ w.after = r.over
    BY DEF Result
  <2>2. w \in Results
    BY <1>1, <1>2, <1>7 DEF Result, Results
  <2>3. e = "none" => b.error = "none" /\ r.error = "none"
    OBVIOUS
  <2>4. Fine(o, w)
    <3>1. NamesKb(o) => w.error \notin NotAccepted
      BY <1>3, <1>7, <2>1
    <3>2. ASSUME w.error = "none"
          PROVE  /\ w.identity = w.over /\ w.over \in Text /\ w.query = Wanted(o, w.over)
                 /\ Modified(w.over, o.mods) # Blank => w.after = Modified(w.over, o.mods)
      BY <1>2, <1>3, <1>7, <2>1, <2>3, <3>2
    <3>3. QED
      BY <3>1, <3>2 DEF Fine
  <2>5. ThreadsInv'
    BY <1>1, <1>9, <2>2, <2>4, ReturnFine
  <2>6. CountsOK'
    BY <1>1, <1>9, LogFine
  <2>7. QED
    BY <1>5, <2>5, <2>6, TypePartsNext DEF ToolsInv, ThreadsInv
<1>10. QED
  BY <1>6, <1>8, <1>9

\* The registry tools return no answer, and are no calls that name a KB to reason.
LEMMA RegistryFine ==
  ASSUME ToolsInv, NEW c \in Client, RegisterKb(c) \/ UnregisterKb(c) \/ ListKbs(c)
  PROVE  ToolsInv'
<1> DEFINE o == call[c]
<1>1. SharedOK /\ CountsOK /\ ThreadsInv /\ o \in CallType
  BY TypeParts DEF ToolsInv, ThreadsInv, ThreadsOK
<1>2. ~NamesKb(o)
  BY DEF ToolsInv, CallInv, RegisterKb, UnregisterKb, ListKbs, NamesKb
<1>3. SharedOK' /\ RegistryInv' /\ CacheInv'
  <2>1. CASE RegisterKb(c)
    <3>1. \/ kbs' = kbs
          \/ /\ o.id \in KbId /\ Registrable(o.knowledge)
             /\ kbs' = [j \in DOMAIN kbs \cup {o.id} |->
                           IF j = o.id THEN o.knowledge ELSE kbs[j]]
      BY <2>1 DEF RegisterKb
    <3>2. Registrable(o.knowledge) => Acceptable(o.knowledge)
      BY <1>1 DEF Registrable, Acceptable, CallType
    <3>3. SharedOK' /\ RegistryInv'
      BY <1>1, <2>1, <3>1, <3>2
         DEF RegisterKb, ToolsInv, SharedOK, RegistryInv, Acceptable
    <3>4. QED
      BY <2>1, <3>3 DEF RegisterKb, ToolsInv, CacheInv
  <2>2. CASE UnregisterKb(c)
    BY <1>1, <2>2 DEF UnregisterKb, Restrict, ToolsInv, SharedOK, RegistryInv, CacheInv
  <2>3. CASE ListKbs(c)
    BY <1>1, <2>3 DEF ListKbs, ToolsInv, SharedOK, RegistryInv, CacheInv
  <2>4. QED
    BY <2>1, <2>2, <2>3
<1>4. PICK r : r \in Results /\ Fine(o, r) /\ Return(c, r) /\ LogTool(c, r)
  <2>1. CASE RegisterKb(c)
    <3>1. PICK e \in {"kb_id", "knowledge", "full", "none"} :
            \E t \in {o.knowledge, NoText} :
              Return(c, Refusal(e, t)) /\ LogTool(c, Refusal(e, t))
      BY <2>1 DEF RegisterKb
    <3>2. o.knowledge \in Text \cup {NoText} /\ e \in Errors
      BY <1>1 DEF CallType, Errors
    <3>3. QED
      BY <1>1, <1>2, <3>1, <3>2, RefusalFine
  <2>2. CASE UnregisterKb(c)
    <3>1. PICK e \in {"kb_id", "none"} :
            Return(c, Refusal(e, NoText)) /\ LogTool(c, Refusal(e, NoText))
      BY <2>2 DEF UnregisterKb
    <3>2. e \in Errors
      BY DEF Errors
    <3>3. QED
      BY <1>1, <1>2, <3>1, <3>2, RefusalFine
  <2>3. CASE ListKbs(c)
    BY <1>1, <2>3, NoResultFine DEF ListKbs
  <2>4. QED
    BY <2>1, <2>2, <2>3
<1>5. ThreadsInv'
  BY <1>1, <1>4, ReturnFine
<1>6. CountsOK'
  BY <1>1, <1>4, LogFine DEF LogTool
<1>7. QED
  BY <1>3, <1>5, <1>6, TypePartsNext DEF ToolsInv, ThreadsInv
----------------------------------------------------------------------------
LEMMA ToolsInvariant == Spec => []ToolsInv
<1>1. ToolsInv /\ [Next]_vars => ToolsInv'
  <2> SUFFICES ASSUME ToolsInv, [Next]_vars PROVE ToolsInv'
    OBVIOUS
  <2>1. ASSUME NEW c \in Client, NEW o \in Calls, Invoke(c, o) PROVE ToolsInv'
    BY <2>1, InvokeFine
  <2>2. ASSUME NEW c \in Client, ResolveKb(c) PROVE ToolsInv'
    BY <2>2, ResolveKbFine
  <2>3. ASSUME NEW c \in Client, Reason(c) PROVE ToolsInv'
    BY <2>3, ReasonFine
  <2>4. ASSUME NEW c \in Client, ReasonAgain(c) PROVE ToolsInv'
    BY <2>4, ReasonAgainFine
  <2>5. ASSUME NEW c \in Client, RegisterKb(c) \/ UnregisterKb(c) \/ ListKbs(c)
        PROVE  ToolsInv'
    BY <2>5, RegistryFine
  <2>6. CASE UNCHANGED vars
    BY <2>6 DEF vars, ToolsInv, TypeOK, CacheInv, RegistryInv, CallInv, BeforeInv, ResultInv
  <2>7. QED
    BY <2>1, <2>2, <2>3, <2>4, <2>5, <2>6 DEF Next
<1>2. QED
  BY <1>1, InitFine, PTL DEF Spec

LEMMA ResultsFine ==
  ASSUME ToolsInv
  PROVE  /\ IdentityPinsAnswer /\ AnswersOwnQuery
         /\ WhatIfComparesOneBase /\ RegisteredKbsAreAccepted
<1> SUFFICES ASSUME NEW c \in Client PROVE Fine(call[c], result[c])
  BY DEF Fine, Answers, Wanted, NamesKb, NotAccepted, IdentityPinsAnswer,
         AnswersOwnQuery, WhatIfComparesOneBase, RegisteredKbsAreAccepted
<1>1. QED
  BY DEF ToolsInv, ResultInv

\* Whatever is registered, unregistered or replaced while a tool runs, its
\* content_hash is that of the text its solutions were computed over.
THEOREM ToolsPinTheirText == Spec => []IdentityPinsAnswer
BY ToolsInvariant, ResultsFine, PTL

\* The shared KB objects of _parse_cached never carry a query from one caller
\* to another, whatever the cache evicts.
THEOREM ToolsAnswerTheirQuery == Spec => []AnswersOwnQuery
BY ToolsInvariant, ResultsFine, PTL

\* Both halves of a what_if start from one text, though its kb_id may be given
\* another between them.
THEOREM WhatIfIsOneExperiment == Spec => []WhatIfComparesOneBase
BY ToolsInvariant, ResultsFine, PTL

\* register_kb admits nothing that reason, asked by kb_id, would refuse for its
\* syntax or its size.
THEOREM RegisteredKbsReason == Spec => []RegisteredKbsAreAccepted
BY ToolsInvariant, ResultsFine, PTL
============================================================================
