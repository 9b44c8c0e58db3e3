------------------------- MODULE PrologEngineProofs -------------------------
(***************************************************************************)
(* What the command handlers preserve, for any KBs and, more of it, when   *)
(* every KB is clean: the lemmas the theorems about a session and about    *)
(* the server rest on.                                                     *)
(***************************************************************************)
EXTENDS EngineSession, FiniteSetTheorems, TLAPS

----------------------------------------------------------------------------
(* The translation and the clauses a load asserts.                         *)

LEMMA StatementClauses ==
  ASSUME NEW s \in Statement
  PROVE  s # "meta" /\ s # "json" /\ PredOf(s) = HeadPred[s] /\ HeadPred[s] \in Pred
BY TranslationAssumption DEF EngineClause, PredOf

LEMMA ProgramType ==
  ASSUME NEW k \in KB
  PROVE  /\ Statements[k] \in Seq(Statement)
         /\ Program(k) \in Seq(Clause)
         /\ Len(Program(k)) = Len(Statements[k]) + 2
         /\ \A i \in 1..Len(Statements[k]) : Program(k)[i] = Statements[k][i]
         /\ Program(k)[Len(Statements[k]) + 1] = "meta"
         /\ Program(k)[Len(Statements[k]) + 2] = "json"
<1>1. Statements[k] \in Seq(Statement)
  BY TranslationAssumption
<1>2. Statements[k] \in Seq(Clause) /\ <<"meta", "json">> \in Seq(Clause)
  BY <1>1 DEF Clause, EngineClause
<1>3. QED
  BY <1>1, <1>2 DEF Program

\* The number of copies a load asserts is a number.
LEMMA CopiesType ==
  ASSUME NEW p, NEW S, p \in Seq(S), NEW c
  PROVE  Copies(p, c) \in Nat
<1>1. DOMAIN p = 1..Len(p) /\ Len(p) \in Nat
  OBVIOUS
<1>2. {i \in Asserted(p) : p[i] = c} \subseteq 1..Len(p)
  BY <1>1 DEF Asserted
<1>3. IsFiniteSet(1..Len(p))
  BY <1>1, FS_Interval
<1>4. IsFiniteSet({i \in Asserted(p) : p[i] = c})
  BY <1>2, <1>3, FS_Subset
<1>5. QED
  BY <1>4, FS_CardinalityType DEF Copies

\* The engine's own clauses come last, so what is asserted of a program is what
\* is asserted of its statements.
LEMMA ProgramCopies ==
  ASSUME NEW k \in KB, NEW s \in Statement
  PROVE  Copies(Program(k), s) = Copies(Statements[k], s)
<1> DEFINE n == Len(Statements[k])
<1>1. n \in Nat /\ DOMAIN Statements[k] = 1..n /\ DOMAIN Program(k) = 1..(n + 2)
  BY ProgramType
<1>2. /\ \A i \in 1..n : Program(k)[i] = Statements[k][i]
      /\ Program(k)[n + 1] # s /\ Program(k)[n + 2] # s
  BY ProgramType, StatementClauses
<1> HIDE DEF n
<1>3. ASSUME NEW i \in 1..n PROVE i \in Asserted(Program(k)) <=> i \in Asserted(Statements[k])
  <2>1. \A j \in 1..i : j \in 1..n /\ Program(k)[j] = Statements[k][j]
    BY <1>1, <1>2
  <2>2. i \in DOMAIN Program(k) /\ i \in DOMAIN Statements[k]
    BY <1>1
  <2>3. QED
    BY <2>1, <2>2 DEF Asserted
<1>4. {i \in Asserted(Program(k)) : Program(k)[i] = s}
        = {i \in Asserted(Statements[k]) : Statements[k][i] = s}
  <2>1. Asserted(Program(k)) \subseteq 1..(n + 2) /\ Asserted(Statements[k]) \subseteq 1..n
    BY <1>1 DEF Asserted
  <2>2. ASSUME NEW i \in Asserted(Program(k)), Program(k)[i] = s PROVE i \in 1..n
    <3>1. i \in 1..(n + 2) /\ i # n + 1 /\ i # n + 2
      BY <1>2, <2>1, <2>2
    <3>2. QED
      BY <1>1, <3>1
  <2>3. QED
    BY <1>2, <1>3, <2>1, <2>2
<1>5. QED
  BY <1>4 DEF Copies

\* A load that does not raise asserts the meta-interpreter.
LEMMA MetaIsAsserted ==
  ASSUME NEW k \in KB, ~LoadRaises(k)
  PROVE  Copies(Program(k), "meta") # 0
<1> DEFINE M == {i \in Asserted(Program(k)) : Program(k)[i] = "meta"}
<1>1. Len(Statements[k]) + 1 \in M
  BY ProgramType DEF LoadRaises
<1>2. M \subseteq 1..Len(Program(k)) /\ Len(Program(k)) \in Nat
  BY ProgramType DEF LoadRaises
<1>3. IsFiniteSet(1..Len(Program(k)))
  BY <1>2, FS_Interval
<1>4. IsFiniteSet(M)
  <2> HIDE DEF M
  <2> QED BY <1>2, <1>3, FS_Subset
<1>5. Cardinality(M) # 0
  <2> HIDE DEF M
  <2> QED BY <1>1, <1>4, FS_EmptySet
<1>6. QED
  BY <1>5 DEF Copies

\* Of a statement with a signature, what a load asserts it also registers.
LEMMA SignedIsDeclared ==
  ASSUME NEW k \in KB, NEW s \in Statement \ Unsigned, Copies(Statements[k], s) # 0
  PROVE  HeadPred[s] \in Decls(k)
<1>1. {i \in Asserted(Statements[k]) : Statements[k][i] = s} # {}
  BY FS_EmptySet DEF Copies
<1>2. s \in StatementsOf(k)
  BY <1>1 DEF StatementsOf, Asserted
<1>3. QED
  BY <1>2 DEF Decls

\* The program of a clean KB is asserted to its end.
LEMMA CleanIsAsserted ==
  ASSUME NEW k \in KB, Clean(k)
  PROVE  /\ Asserted(Statements[k]) = DOMAIN Statements[k]
         /\ Asserted(Program(k)) = DOMAIN Program(k)
<1>1. \A i \in DOMAIN Statements[k] : Statements[k][i] \notin Rejected
  BY DEF Clean, StatementsOf
<1>2. Rejected \subseteq Statement /\ "meta" \notin Statement /\ "json" \notin Statement
  BY TranslationAssumption DEF EngineClause
<1>3. \A i \in DOMAIN Program(k) : Program(k)[i] \notin Rejected
  <2> TAKE i \in DOMAIN Program(k)
  <2>1. i \in 1..Len(Statements[k]) \/ i = Len(Statements[k]) + 1 \/ i = Len(Statements[k]) + 2
    BY ProgramType
  <2>2. QED
    BY <2>1, <1>1, <1>2, ProgramType
<1>4. \A i \in DOMAIN Program(k) : 1..i \subseteq DOMAIN Program(k)
  BY ProgramType
<1>5. \A i \in DOMAIN Statements[k] : 1..i \subseteq DOMAIN Statements[k]
  BY ProgramType
<1>6. QED
  BY <1>1, <1>3, <1>4, <1>5 DEF Asserted

\* Loading a clean KB raises nothing, adds the user's statements as often
\* as the KB has them, and adds the meta-interpreter.
LEMMA CleanLoad ==
  ASSUME NEW k \in KB, Clean(k)
  PROVE  /\ ~LoadRaises(k)
         /\ \A s \in Statement : Copies(Program(k), s) = Copies(Statements[k], s)
         /\ Copies(Program(k), "meta") # 0
         /\ \A s \in Statement : Copies(Program(k), s) # 0 => HeadPred[s] \in Decls(k)
<1>1. ~LoadRaises(k)
  BY CleanIsAsserted DEF LoadRaises
<1>2. ASSUME NEW s \in Statement, Copies(Program(k), s) # 0
      PROVE  HeadPred[s] \in Decls(k)
  <2>1. {i \in DOMAIN Statements[k] : Statements[k][i] = s} # {}
    BY <1>2, ProgramCopies, FS_EmptySet, CleanIsAsserted DEF Copies
  <2>2. s \in StatementsOf(k)
    BY <2>1 DEF StatementsOf
  <2>3. QED
    BY <2>2 DEF Decls, Clean
<1>3. QED
  BY <1>1, <1>2, ProgramCopies, MetaIsAsserted

----------------------------------------------------------------------------
(* The handlers.                                                           *)

LEMMA ResetPreserves ==
  ASSUME ResetEngine
  PROVE  EngineInv'
BY StatementClauses
   DEF ResetEngine, EngineInv, EngineTypeOK, Registered, Fingerprinted,
       EmptyDb, NoStats, Clause, EngineClause

LEMMA FreshIsFine ==
  ASSUME FreshEngine
  PROVE  EngineInv
BY DEF FreshEngine, EngineInv, EngineTypeOK, Registered, Fingerprinted,
       EmptyDb, NoStats, Clause, EngineClause

\* Clearing leaves no copy of a user statement nor of the interpreter.
LEMMA ClearedOfUser ==
  ASSUME EngineInv
  PROVE  /\ \A s \in Statement : Cleared[s] = 0
         /\ Cleared["meta"] = 0
         /\ Cleared \in [Clause -> Nat]
<1>1. \A s \in Statement : Cleared[s] = 0
  BY StatementClauses DEF EngineInv, EngineTypeOK, Registered, Cleared, Clause
<1>2. Cleared["meta"] = 0
  BY DEF EngineInv, EngineTypeOK, Registered, Cleared, Clause, EngineClause, PredOf
<1>3. Cleared \in [Clause -> Nat]
  BY DEF EngineInv, EngineTypeOK, Cleared
<1>4. QED
  BY <1>1, <1>2, <1>3

\* After the rebuild of a clean KB the engine holds that KB, and the
\* fingerprint is that KB's if the caller sent one.
LEMMA RebuildEstablishes ==
  ASSUME EngineInv, NEW k \in KB, Clean(k), NEW hashed \in BOOLEAN,
         Rebuild(k, hashed)
  PROVE  /\ EngineInv'
         /\ proveKnown'
         /\ kbHash' = IF hashed THEN k ELSE NoHash
<1>1. \A c \in Clause : Copies(Program(k), c) \in Nat
  BY ProgramType, CopiesType
<1>2. db' = [c \in Clause |-> Cleared[c] + Copies(Program(k), c)]
  BY DEF Rebuild
<1>3. db' \in [Clause -> Nat]
  BY <1>1, <1>2, ClearedOfUser
<1>4. \A s \in Statement : db'[s] = Copies(Statements[k], s)
  BY <1>1, <1>2, CleanLoad, ClearedOfUser DEF Clause
<1>5. db'["meta"] # 0
  BY <1>1, <1>2, CleanLoad, ClearedOfUser DEF Clause, EngineClause
<1>6. registry' = Decls(k) /\ proveKnown' = TRUE
  BY DEF Rebuild
<1>7. Decls(k) \subseteq Predicate
  BY ProgramType, TranslationAssumption
     DEF Decls, StatementsOf, EnginePredicates, Predicate
<1>8. kbHash' = IF hashed THEN k ELSE NoHash
  BY CleanLoad DEF Rebuild
<1>9. kbStats' \in [Statement -> Nat]
  BY <1>3, CleanLoad DEF Rebuild, StatsOf, NoStats, Clause
<1>10. EngineTypeOK'
  BY <1>3, <1>6, <1>7, <1>8, <1>9 DEF EngineTypeOK
<1>11. Registered'
  BY <1>4, <1>6, CleanLoad DEF Registered, Decls, EnginePredicates
<1>12. Fingerprinted'
  BY <1>4, <1>5, <1>6, <1>8 DEF Fingerprinted
<1>13. QED
  BY <1>6, <1>8, <1>10, <1>11, <1>12 DEF EngineInv

\* Whatever the KB, a load keeps the types.
LEMMA LoadTyped ==
  ASSUME EngineTypeOK, NEW k \in KB, NEW hashed \in BOOLEAN, HandleLoad(k, hashed)
  PROVE  EngineTypeOK'
<1>1. CASE UNCHANGED engineVars
  BY <1>1 DEF engineVars, EngineTypeOK
<1>2. CASE Rebuild(k, hashed)
  <2>1. \A c \in Clause : Copies(Program(k), c) \in Nat
    BY ProgramType, CopiesType
  <2>2. Cleared \in [Clause -> Nat]
    BY DEF EngineTypeOK, Cleared
  <2>3. db' \in [Clause -> Nat]
    BY <1>2, <2>1, <2>2 DEF Rebuild
  <2>4. registry' \subseteq Predicate
    BY <1>2, ProgramType, TranslationAssumption
       DEF Rebuild, Decls, StatementsOf, EnginePredicates, Predicate
  <2>5. kbHash' \in KB \cup {NoHash} /\ proveKnown' \in BOOLEAN
    BY <1>2 DEF Rebuild, EngineTypeOK
  <2>6. kbStats' \in [Statement -> Nat]
    BY <1>2, <2>3 DEF Rebuild, EngineTypeOK, StatsOf, NoStats, Clause
  <2>7. QED
    BY <2>3, <2>4, <2>5, <2>6 DEF EngineTypeOK
<1>3. QED
  BY <1>1, <1>2 DEF HandleLoad

LEMMA ClauseTyped ==
  ASSUME EngineTypeOK, NEW s \in Statement, HandleAssert(s) \/ HandleRetract(s)
  PROVE  EngineTypeOK'
<1>1. HeadPred[s] \in Predicate
  BY StatementClauses DEF Predicate
<1>2. QED
  BY <1>1 DEF HandleAssert, RefuseAssert, HandleRetract, engineVars, EngineTypeOK, Clause

\* A load that succeeds, skipped or not, leaves the engine with that KB.
LEMMA LoadPreserves ==
  ASSUME EngineInv, NEW k \in KB, Clean(k), NEW hashed \in BOOLEAN,
         HandleLoad(k, hashed)
  PROVE  /\ EngineInv'
         /\ LoadStatus(k, hashed) = "ok"
         /\ proveKnown'
         /\ hashed => kbHash' = k
<1>1. LoadStatus(k, hashed) = "ok"
  BY CleanLoad DEF LoadStatus
<1>2. CASE SkipsLoad(k, hashed) /\ UNCHANGED engineVars
  <2>1. EngineInv'
    BY <1>2 DEF engineVars, EngineInv, EngineTypeOK, Registered, Fingerprinted
  <2>2. kbHash = k /\ kbHash # NoHash /\ hashed
    BY <1>2, EngineAssumption DEF SkipsLoad
  <2>3. proveKnown' /\ kbHash' = k
    BY <1>2, <2>2 DEF engineVars, EngineInv, Fingerprinted
  <2>4. QED
    BY <1>1, <2>1, <2>3
<1>3. CASE Rebuild(k, hashed)
  BY <1>1, <1>3, RebuildEstablishes
<1>4. QED
  BY <1>2, <1>3 DEF HandleLoad

LEMMA AssertPreserves ==
  ASSUME EngineInv, NEW s \in Statement, HandleAssert(s)
  PROVE  EngineInv'
<1>1. HeadPred[s] \in Predicate
  BY StatementClauses DEF Predicate
<1>2. CASE RefuseAssert(s)
  BY <1>1, <1>2
     DEF RefuseAssert, EngineInv, EngineTypeOK, Registered, Fingerprinted
<1>3. CASE /\ registry' = registry \cup {HeadPred[s]}
           /\ db' = [db EXCEPT ![s] = @ + 1]
           /\ kbHash' = NoHash
           /\ UNCHANGED <<kbStats, proveKnown>>
  <2>1. EngineTypeOK'
    BY <1>1, <1>3 DEF EngineInv, EngineTypeOK, Clause
  <2>2. Registered'
    BY <1>3, StatementClauses DEF EngineInv, EngineTypeOK, Registered, Clause
  <2>3. Fingerprinted'
    BY <1>3 DEF Fingerprinted
  <2>4. QED
    BY <2>1, <2>2, <2>3 DEF EngineInv
<1>4. QED
  BY <1>2, <1>3 DEF HandleAssert

LEMMA RetractPreserves ==
  ASSUME EngineInv, NEW s \in Statement, HandleRetract(s)
  PROVE  EngineInv'
<1>1. CASE UNCHANGED engineVars
  BY <1>1 DEF engineVars, EngineInv, EngineTypeOK, Registered, Fingerprinted
<1>2. CASE /\ db' = [db EXCEPT ![s] = 0]
           /\ kbHash' = NoHash
           /\ UNCHANGED <<registry, kbStats, proveKnown>>
  <2>1. EngineTypeOK'
    BY <1>2 DEF EngineInv, EngineTypeOK, Clause
  <2>2. Registered'
    BY <1>2, StatementClauses DEF EngineInv, EngineTypeOK, Registered, Clause
  <2>3. Fingerprinted'
    BY <1>2 DEF Fingerprinted
  <2>4. QED
    BY <2>1, <2>2, <2>3 DEF EngineInv
<1>3. QED
  BY <1>1, <1>2 DEF HandleRetract

\* With a fingerprint recorded, a query sees exactly that KB.
LEMMA FingerprintMeansVisible ==
  ASSUME EngineInv, kbHash # NoHash
  PROVE  Visible = ContentsOf(kbHash)
BY DEF EngineInv, Fingerprinted, Visible, ContentsOf

----------------------------------------------------------------------------
(* Any KBs: a load may raise half-way, and a statement may be registered   *)
(* nowhere.                                                                *)

\* What clear_workspace can rely on, whatever the KBs.
SignedRegistered ==
  /\ \A s \in Statement \ Unsigned : db[s] # 0 => HeadPred[s] \in registry
  /\ db["meta"] # 0 => "prove/3" \in registry

LEMMA RebuildHolds ==
  ASSUME EngineTypeOK, SignedRegistered, NEW k \in KB, NEW hashed \in BOOLEAN,
         Rebuild(k, hashed)
  PROVE  /\ HoldsKb(UserContents', k)
         /\ SignedRegistered'
         /\ LoadRaises(k) \/ db'["meta"] # 0
         /\ LoadRaises(k) \/ kbHash' = IF hashed THEN k ELSE NoHash
<1>1. \A c \in Clause : Copies(Program(k), c) \in Nat
  BY ProgramType, CopiesType
<1>2. db' = [c \in Clause |-> Cleared[c] + Copies(Program(k), c)]
  BY DEF Rebuild
<1>3. /\ Cleared \in [Clause -> Nat] /\ Cleared["meta"] = 0
      /\ \A s \in Statement \ Unsigned : Cleared[s] = 0
  BY StatementClauses
     DEF EngineTypeOK, SignedRegistered, Cleared, Clause, EngineClause, PredOf
<1>4. "meta" \in Clause /\ Statement \subseteq Clause
  BY DEF Clause, EngineClause
<1>5. ASSUME NEW s \in Statement
      PROVE  /\ db'[s] >= Copies(Statements[k], s)
             /\ s \notin Unsigned => db'[s] = Copies(Statements[k], s)
  <2>1. db'[s] = Cleared[s] + Copies(Statements[k], s)
    BY <1>2, <1>4, ProgramCopies
  <2>2. Cleared[s] \in Nat /\ Copies(Statements[k], s) \in Nat
    BY <1>1, <1>3, <1>4, ProgramCopies
  <2>3. QED
    BY <1>3, <2>1, <2>2
<1>6. HoldsKb(UserContents', k)
  BY <1>5 DEF HoldsKb, UserContents, ContentsOf
<1>7. registry' = Decls(k)
  BY DEF Rebuild
<1>8. SignedRegistered'
  BY <1>5, <1>7, SignedIsDeclared DEF SignedRegistered, Decls, EnginePredicates
<1>9. LoadRaises(k) \/ db'["meta"] # 0
  BY <1>1, <1>2, <1>3, <1>4, MetaIsAsserted
<1>10. LoadRaises(k) \/ kbHash' = IF hashed THEN k ELSE NoHash
  BY DEF Rebuild
<1>11. QED
  BY <1>6, <1>8, <1>9, <1>10

LEMMA ClauseRegistered ==
  ASSUME EngineTypeOK, SignedRegistered, NEW s \in Statement, HandleAssert(s) \/ HandleRetract(s)
  PROVE  SignedRegistered'
<1>1. CASE RefuseAssert(s) \/ UNCHANGED engineVars
  BY <1>1 DEF RefuseAssert, engineVars, SignedRegistered
<1>2. CASE registry' = registry \cup {HeadPred[s]} /\ db' = [db EXCEPT ![s] = @ + 1]
  BY <1>2, StatementClauses DEF EngineTypeOK, SignedRegistered, Clause
<1>3. CASE db' = [db EXCEPT ![s] = 0] /\ UNCHANGED registry
  BY <1>3, StatementClauses DEF EngineTypeOK, SignedRegistered, Clause
<1>4. QED
  BY <1>1, <1>2, <1>3 DEF HandleAssert, HandleRetract

----------------------------------------------------------------------------
(* The session of one process: what the engine holds is told by the        *)
(* fingerprint until a load raises, and by a load that has just built it.  *)

FingerprintHolds ==
  kbHash # NoHash /\ ~halfBuilt => db["meta"] # 0 /\ HoldsKb(UserContents, kbHash)

LoadedInv ==
  last.cmd = "load" =>
    /\ last.status = "ok" /\ ~(last.skipped /\ halfBuilt) => HoldsKb(Visible, last.kb)
    /\ ~last.skipped => HoldsKb(UserContents, last.kb)

SessionInv == SessionTypeOK /\ SignedRegistered /\ FingerprintHolds /\ LoadedInv

\* With the interpreter asserted a query sees all user statements.
LEMMA AllVisible == ASSUME db["meta"] # 0 PROVE Visible = UserContents
BY DEF Visible, UserContents

\* The session keeps its invariant, whatever the KBs and the order of loads,
\* asserts, retracts and queries.
LEMMA SessionInvariant == Session => []SessionInv
<1>1. SessionInit => SessionInv
  <2> SUFFICES ASSUME SessionInit PROVE SessionInv
    OBVIOUS
  <2>1. EngineInv
    BY FreshIsFine DEF SessionInit
  <2>2. QED
    BY <2>1 DEF SessionInit, SessionInv, SessionTypeOK, LoadedInv, EngineInv, Registered,
                SignedRegistered, FingerprintHolds, FreshEngine
<1>2. SessionInv /\ [SessionNext]_sessionVars => SessionInv'
  <2> SUFFICES ASSUME SessionInv, [SessionNext]_sessionVars PROVE SessionInv'
    OBVIOUS
  <2>1. ASSUME NEW k \in KB, NEW hashed \in BOOLEAN, LoadKb(k, hashed)
        PROVE  SessionInv'
    <3>1. HandleLoad(k, hashed) /\ EngineTypeOK /\ SignedRegistered
      BY <2>1 DEF LoadKb, SessionInv, SessionTypeOK
    <3>2. SkipsLoad(k, hashed) \in BOOLEAN /\ LoadRaises(k) \in BOOLEAN
      BY DEF SkipsLoad, LoadRaises
    <3>3. EngineTypeOK'
      BY <3>1, LoadTyped
    <3>4. SessionTypeOK'
      BY <2>1, <3>2, <3>3 DEF LoadKb, Replied, LoadStatus, SessionInv, SessionTypeOK
    <3>5. CASE SkipsLoad(k, hashed) /\ UNCHANGED engineVars
      <4>1. kbHash = k /\ kbHash # NoHash
        BY <3>5, EngineAssumption DEF SkipsLoad
      <4>2. ~halfBuilt => HoldsKb(Visible, k)
        BY <4>1, AllVisible DEF SessionInv, FingerprintHolds
      <4>3. UNCHANGED <<Visible, UserContents, halfBuilt, db, kbHash, registry>>
        BY <2>1, <3>5 DEF LoadKb, engineVars, Visible, UserContents
      <4>4. last'.kb = k /\ last'.skipped
        BY <2>1, <3>5 DEF LoadKb, Replied
      <4>5. LoadedInv'
        BY <4>2, <4>3, <4>4 DEF LoadedInv
      <4>6. QED
        BY <3>4, <4>3, <4>5 DEF SessionInv, SignedRegistered, FingerprintHolds
    <3>6. CASE ~SkipsLoad(k, hashed) /\ Rebuild(k, hashed)
      <4>1. /\ HoldsKb(UserContents', k) /\ SignedRegistered'
            /\ LoadRaises(k) \/ db'["meta"] # 0
            /\ LoadRaises(k) \/ kbHash' = IF hashed THEN k ELSE NoHash
        BY <3>1, <3>6, RebuildHolds
      <4>2. LoadRaises(k) \/ HoldsKb(Visible', k)
        BY <4>1 DEF Visible, UserContents
      <4>3. /\ last'.kb = k /\ ~last'.skipped /\ halfBuilt' = LoadRaises(k)
            /\ last'.status = "ok" => ~LoadRaises(k)
        BY <2>1, <3>6 DEF LoadKb, Replied, LoadStatus
      <4>4. LoadedInv'
        BY <4>1, <4>2, <4>3 DEF LoadedInv
      <4>5. FingerprintHolds'
        BY <4>1, <4>3 DEF FingerprintHolds
      <4>6. QED
        BY <3>4, <4>1, <4>4, <4>5 DEF SessionInv
    <3>7. QED
      BY <3>1, <3>5, <3>6 DEF HandleLoad
  <2>2. ASSUME NEW s \in Statement, AssertClause(s) \/ RetractClause(s)
        PROVE  SessionInv'
    <3>1. /\ HandleAssert(s) \/ HandleRetract(s)
          /\ EngineTypeOK /\ SignedRegistered
      BY <2>2 DEF AssertClause, RetractClause, SessionInv, SessionTypeOK
    <3>2. EngineTypeOK' /\ SignedRegistered'
      BY <3>1, ClauseTyped, ClauseRegistered
    <3>3. last'.cmd # "load" /\ UNCHANGED halfBuilt
      BY <2>2 DEF AssertClause, RetractClause, Replied
    <3>4. UNCHANGED <<db, kbHash>> \/ kbHash' = NoHash
      BY <3>1 DEF HandleAssert, RefuseAssert, HandleRetract, engineVars
    <3>5. FingerprintHolds'
      BY <3>3, <3>4 DEF SessionInv, FingerprintHolds, UserContents
    <3>6. SessionTypeOK'
      <4>1. \E cmd \in {"assert", "retract"} : Replied(cmd, NoHash, ClauseStatus(s), FALSE)
        BY <2>2 DEF AssertClause, RetractClause
      <4>2. ClauseStatus(s) \in {"ok", "error"}
        BY DEF ClauseStatus
      <4>3. QED
        BY <3>2, <3>3, <4>1, <4>2 DEF Replied, SessionInv, SessionTypeOK
    <3>7. QED
      BY <3>2, <3>3, <3>5, <3>6 DEF SessionInv, LoadedInv
  <2>3. CASE Query
    BY <2>3 DEF Query, QueryStatus, Replied, engineVars, SessionInv, SessionTypeOK, EngineTypeOK,
                SignedRegistered, FingerprintHolds, LoadedInv, UserContents
  <2>4. CASE UNCHANGED sessionVars
    BY <2>4 DEF sessionVars, engineVars, SessionInv, SessionTypeOK, EngineTypeOK,
                SignedRegistered, FingerprintHolds, LoadedInv, Visible, UserContents
  <2>5. QED
    BY <2>1, <2>2, <2>3, <2>4 DEF SessionNext
<1>3. QED
  BY <1>1, <1>2, PTL DEF Session

\* A load that answers ok, whether it rebuilt the workspace or was skipped for
\* its fingerprint, makes exactly its KB visible to the queries that follow: for
\* any KBs, with copies of unsigned statements and a skip after a load that
\* raised as the only exceptions.
THEOREM SessionLoads == Session => []LoadOkMeansVisible
<1>1. SessionInv => LoadOkMeansVisible
  BY DEF SessionInv, LoadedInv, LoadOkMeansVisible
<1>2. QED
  BY <1>1, SessionInvariant, PTL

\* A load that is not skipped leaves nothing in the workspace of what was loaded
\* or asserted before it, not even of a load that raised half-way, but for
\* statements whose signature the translator cannot read; and if it raises, what
\* precedes the clause that was refused.
THEOREM SessionRebuilds == Session => []RebuildIsExact
<1>1. SessionInv => RebuildIsExact
  BY DEF SessionInv, LoadedInv, RebuildIsExact
<1>2. QED
  BY <1>1, SessionInvariant, PTL

\* A recorded fingerprint is that of what the engine holds, until a load raises:
\* the skip of a load is decided on the truth.
THEOREM SessionFingerprints == Session => []FingerprintTellsContents
<1>1. SessionInv => FingerprintTellsContents
  BY AllVisible DEF SessionInv, FingerprintHolds, FingerprintTellsContents
<1>2. QED
  BY <1>1, SessionInvariant, PTL
=============================================================================
