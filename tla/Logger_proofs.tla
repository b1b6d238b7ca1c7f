------------------------------ MODULE Logger_proofs ------------------------------
(***************************************************************************)
(* Proofs about Logger, for any names, levels and number of loggers.  The  *)
(* registry invariant is inductive together with the types.                *)
(***************************************************************************)
EXTENDS Logger, SequenceTheorems, TLAPS

LoggerInv == TypeOK /\ RegisteredWhileInitialized

\* Nothing is registered at first.
LEMMA StartInv == Start => LoggerInv
<1> SUFFICES ASSUME Start PROVE LoggerInv
  OBVIOUS
<1>1. loggers \in Seq([name : Names, level : Levels]) /\ Len(loggers) = 0
  BY EmptySeq DEF Start
<1>2. registry \in [Names -> (Nat \ {0}) \union {Foreign, Free}]
  BY DEF Start
<1>3. initialized \in BOOLEAN
  BY DEF Start
<1>4. TypeOK
  BY <1>1, <1>2, <1>3 DEF Start, TypeOK
<1>5. RegisteredWhileInitialized
  BY LoggerAssumption DEF Start, RegisteredWhileInitialized
<1> QED  BY <1>4, <1>5 DEF LoggerInv

\* Init constructs a logger and registers it, or fails to.
LEMMA InitStep ==
  ASSUME LoggerInv, NEW n \in Names, Init(n)
  PROVE  LoggerInv'
<1> DEFINE new == Len(loggers) + 1
<1>1. /\ Len(loggers) \in Nat
      /\ Info \in Levels
  BY LoggerAssumption DEF LoggerInv, TypeOK
<1>2. /\ loggers' \in Seq([name : Names, level : Levels])
      /\ Len(loggers') = new
      /\ loggers'[new].name = n
  BY <1>1 DEF LoggerInv, TypeOK, Init
<1>3. TypeOK'
  <2>1. registry' \in [Names -> (Nat \ {0}) \union {Foreign, Free}]
    <3>1. new \in Nat \ {0}
      BY <1>1
    <3> QED  BY <3>1 DEF LoggerInv, TypeOK, Init
  <2>2. initialized' \in BOOLEAN
    BY DEF LoggerInv, TypeOK, Init
  <2>3. logger' \in 0 .. Len(loggers')
    BY <1>1, <1>2 DEF Init
  <2> QED  BY <1>2, <2>1, <2>2, <2>3 DEF TypeOK
<1>4. \A m \in Names : registry[m] \notin Nat
  BY DEF LoggerInv, RegisteredWhileInitialized, Init
<1>5. RegisteredWhileInitialized'
  <2>1. CASE registry[n] = Free
    BY <2>1, <1>1, <1>2, <1>4
    DEF LoggerInv, TypeOK, RegisteredWhileInitialized, Init
  <2>2. CASE registry[n] # Free
    BY <2>2, <1>4 DEF RegisteredWhileInitialized, Init
  <2> QED  BY <2>1, <2>2
<1> QED  BY <1>3, <1>5 DEF LoggerInv

\* SetLevel changes no name.
LEMMA SetLevelStep ==
  ASSUME LoggerInv, NEW l \in Levels, SetLevel(l)
  PROVE  LoggerInv'
<1> DEFINE set == [loggers[logger] EXCEPT !.level = l]
<1>1. /\ loggers \in Seq([name : Names, level : Levels])
      /\ logger \in 1 .. Len(loggers)
  BY DEF LoggerInv, TypeOK, SetLevel
<1>2. loggers[logger] \in [name : Names, level : Levels]
  BY <1>1, ElementOfSeq
<1>3. /\ set \in [name : Names, level : Levels]
      /\ set.name = loggers[logger].name
  BY <1>2
<1>4. loggers' = [loggers EXCEPT ![logger] = set]
  BY DEF SetLevel
<1> HIDE DEF set
<1>5. /\ loggers' \in Seq([name : Names, level : Levels])
      /\ Len(loggers') = Len(loggers)
      /\ loggers'[logger] = set
  BY <1>1, <1>3, <1>4, ExceptSeq
<1>6. TypeOK'
  BY <1>5 DEF LoggerInv, TypeOK, SetLevel
<1>7. RegisteredWhileInitialized'
  BY <1>3, <1>5 DEF LoggerInv, RegisteredWhileInitialized, SetLevel
<1> QED  BY <1>6, <1>7 DEF LoggerInv

\* Shutdown drops the name of the one logger that is registered.
LEMMA ShutdownStep ==
  ASSUME LoggerInv, Shutdown
  PROVE  LoggerInv'
<1>1. CASE ~initialized \/ logger = 0
  BY <1>1
  DEF LoggerInv, TypeOK, RegisteredWhileInitialized, Shutdown, vars
<1>2. CASE initialized /\ logger # 0
  <2>1. TypeOK'
    <3>1. registry' \in [Names -> (Nat \ {0}) \union {Foreign, Free}]
      BY <1>2 DEF LoggerInv, TypeOK, Shutdown
    <3>2. Len(loggers) \in Nat
      BY LenProperties DEF LoggerInv, TypeOK
    <3>3. initialized' \in BOOLEAN
      BY <1>2 DEF Shutdown
    <3> QED  BY <1>2, <3>1, <3>2, <3>3 DEF LoggerInv, TypeOK, Shutdown
  <2>2. \A m \in Names : registry'[m] \notin Nat
    BY <1>2, LoggerAssumption
    DEF LoggerInv, TypeOK, RegisteredWhileInitialized, Shutdown
  <2>3. RegisteredWhileInitialized'
    BY <1>2, <2>2 DEF RegisteredWhileInitialized, Shutdown
  <2> QED  BY <2>1, <2>3 DEF LoggerInv
<1> QED  BY <1>1, <1>2

\* Other code touches no name of ours.
LEMMA OthersStep ==
  ASSUME LoggerInv, NEW n \in Names, OthersRegister(n) \/ OthersDrop(n)
  PROVE  LoggerInv'
<1>1. TypeOK'
  BY DEF LoggerInv, TypeOK, OthersRegister, OthersDrop
<1>2. /\ registry[n] \notin Nat /\ registry'[n] \notin Nat
      /\ \A m \in Names \ {n} : registry'[m] = registry[m]
  BY LoggerAssumption DEF LoggerInv, TypeOK, OthersRegister, OthersDrop
<1>3. initialized => loggers[logger].name \in Names
  <2> SUFFICES ASSUME initialized PROVE loggers[logger].name \in Names
    OBVIOUS
  <2>1. logger \in 1 .. Len(loggers)
    BY DEF LoggerInv, TypeOK, RegisteredWhileInitialized
  <2>2. loggers[logger] \in [name : Names, level : Levels]
    BY <2>1, ElementOfSeq DEF LoggerInv, TypeOK
  <2> QED  BY <2>2
<1>4. initialized => loggers[logger].name # n
  BY <1>2 DEF LoggerInv, TypeOK, RegisteredWhileInitialized
<1>5. RegisteredWhileInitialized'
  BY <1>2, <1>3, <1>4
  DEF LoggerInv, RegisteredWhileInitialized, OthersRegister, OthersDrop
<1> QED  BY <1>1, <1>5 DEF LoggerInv

\* Every step preserves the invariant.
LEMMA NextInv == LoggerInv /\ [Next]_vars => LoggerInv'
<1> SUFFICES ASSUME LoggerInv, [Next]_vars PROVE LoggerInv'
  OBVIOUS
<1>1. CASE InitAgain \/ InitWithoutSinks \/ UNCHANGED vars
  BY <1>1
  DEF LoggerInv, TypeOK, RegisteredWhileInitialized, InitAgain,
      InitWithoutSinks, vars
<1>2. CASE \E n \in Names : Init(n)
  BY <1>2, InitStep
<1>3. CASE \E l \in Levels : SetLevel(l)
  BY <1>3, SetLevelStep
<1>4. CASE Shutdown
  BY <1>4, ShutdownStep
<1>5. CASE \E n \in Names : OthersRegister(n) \/ OthersDrop(n)
  BY <1>5, OthersStep
<1> QED  BY <1>1, <1>2, <1>3, <1>4, <1>5 DEF Next

\* The invariant holds throughout (Logger::Init, SetLevel and Shutdown).
THEOREM LoggerInductive == Spec => []LoggerInv
BY StartInv, NextInv, PTL DEF Spec

\* logger_ always is a logger that was constructed, or null.
THEOREM LoggerTypes == Spec => []TypeOK
<1>1. LoggerInv => TypeOK
  BY DEF LoggerInv
<1> QED  BY <1>1, LoggerInductive, PTL

\* spdlog's registry holds the logger exactly while it is initialized.
THEOREM Registered == Spec => []RegisteredWhileInitialized
<1>1. LoggerInv => RegisteredWhileInitialized
  BY DEF LoggerInv
<1> QED  BY <1>1, LoggerInductive, PTL

\* Shutdown never drops the logger of other code.
THEOREM ForeignSafe == Spec => ForeignLoggersStay
<1> DEFINE Stay ==
      \A n \in Names :
        registry[n] = Foreign /\ registry'[n] # Foreign => OthersDrop(n)
<1>1. LoggerInv /\ [Next]_vars => [Stay]_vars
  <2> SUFFICES ASSUME LoggerInv, Next, NEW n \in Names,
                      registry[n] = Foreign, registry'[n] # Foreign
               PROVE  OthersDrop(n)
    OBVIOUS
  <2>1. registry' # registry
    OBVIOUS
  <2>2. ASSUME NEW m \in Names, Init(m) PROVE FALSE
    BY <2>2, <2>1, LoggerAssumption DEF LoggerInv, TypeOK, Init
  <2>3. ~Shutdown
    <3> SUFFICES ASSUME Shutdown PROVE FALSE
      OBVIOUS
    <3>1. /\ initialized
          /\ registry' = [registry EXCEPT ![loggers[logger].name] = Free]
      BY <2>1 DEF Shutdown, vars
    <3>2. n = loggers[logger].name
      BY <3>1 DEF LoggerInv, TypeOK
    <3>3. registry[n] \in Nat
      BY <3>1, <3>2 DEF LoggerInv, TypeOK, RegisteredWhileInitialized
    <3> QED  BY <3>3, LoggerAssumption
  <2>4. ASSUME NEW m \in Names, OthersRegister(m) PROVE FALSE
    BY <2>4, <2>1, LoggerAssumption DEF LoggerInv, TypeOK, OthersRegister
  <2>5. ASSUME NEW m \in Names, OthersDrop(m) PROVE m = n
    BY <2>5 DEF LoggerInv, TypeOK, OthersDrop
  <2>6. ~(InitAgain \/ InitWithoutSinks \/ \E l \in Levels : SetLevel(l))
    BY <2>1 DEF InitAgain, InitWithoutSinks, SetLevel, vars
  <2> QED  BY <2>2, <2>3, <2>4, <2>5, <2>6 DEF Next
<1> QED  BY <1>1, LoggerInductive, PTL DEF Spec, ForeignLoggersStay
===============================================================================
