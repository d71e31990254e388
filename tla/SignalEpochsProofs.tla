------------------------- MODULE SignalEpochsProofs -------------------------
(* The promises of SignalEpochs hold for any set of owners, any saturation   *)
(* value and any number of handlers in flight.                               *)
EXTENDS SignalEpochs, FiniteSetTheorems, TLAPS

Installing == holder # Nobody /\ task \in {"begin", "reconcile", "rollback"}
Closing    == holder # Nobody /\ task = "close"
Restoring  == holder # Nobody /\ task \in {"reconcile", "rollback", "close"}
Loaded(s)  == step = "finish" \/ (step = "load" /\ at > s)

\* Which system calls a task makes, and who may be doing it.
Control ==
  /\ holder # Nobody =>
       /\ task = "begin" => step \in {"load", "register", "finish"}
       /\ task \in {"reconcile", "rollback", "close"} =>
            step \in {"restore", "load", "finish"}
       /\ task = "check" => step \in {"load", "finish"}
       /\ task \in {"check", "close"} => holder \in owns
  /\ Installing => owns = {}

\* The count of owners is right, but for the one that is closing.
Counted ==
  /\ ~Closing => owners = Cardinality(owns)
  /\ Closing => owners = Cardinality(owns) - 1
  /\ ~live => owners = 0 /\ \A s \in Signals : ~pending[s]
  /\ Restoring => live
  /\ Restoring /\ step = "restore" => owners = 0

\* What is pending is exactly what is installed.
Installed ==
  /\ \A s \in Signals : pending[s] => saved[s] = "original"
  /\ \A s \in Signals : disp[s] = "ours" <=> pending[s]
  /\ owners > 0 => \A s \in Signals : pending[s]
  /\ holder # Nobody /\ task = "begin" =>
       /\ step = "register" => live /\ \A s \in Signals : pending[s] <=> s < at
       /\ step # "register" => ~live

\* A signal that is owed to an owner shows against the epoch's baseline, in the
\* counters and in the snapshot of a close that has read it.
Learned ==
  /\ live => \A s \in Signals : baseline[s] < Cap
                                      /\ baseline[s] <= count[s]
  /\ \A o \in owns : \A s \in owed[o] : baseline[s] < count[s]
  /\ \A o \in Owners \ owns : owed[o] \subseteq told[o]
  /\ Installing => owed[holder] = {}
  /\ holder # Nobody => \A s \in Signals : Loaded(s) => snap[s] <= count[s]
  /\ Closing => \A s \in owed[holder] : Loaded(s) => baseline[s] < snap[s]

\* A publication is covered by the last report, or its signal is still ours, or
\* the snapshot about to be reported has it.
Remembered ==
  /\ \A s \in Signals : ours[s] <= count[s]
  /\ ~live => \A s \in Signals : ours[s] <= covered[s]
  /\ Restoring =>
       \A s \in Signals : Loaded(s) /\ ~pending[s] => ours[s] <= snap[s]
  /\ live /\ owners = 0 /\ (holder = Nobody \/ task = "reconcile") =>
       covered = reported

Inv == TypeOK /\ Control /\ Counted /\ Installed /\ Learned /\ Remembered

USE ConstantsAssumption

\* The owners can be counted.
LEMMA FiniteOwns == ASSUME TypeOK PROVE IsFiniteSet(owns) /\ Cardinality(owns) \in Nat
BY FS_Subset, FS_CardinalityType DEF TypeOK

\* The process starts in the invariant.
LEMMA InitHolds == Init => Inv
<1> SUFFICES ASSUME Init PROVE Inv
  OBVIOUS
<1>a. Cardinality(owns) = 0
  BY FS_EmptySet DEF Init
<1>b. Zero \in [Signals -> Nat] /\ Zero \in Counters
  BY DEF Zero, Counters
<1>1. TypeOK
  <2>1. pending \in [Signals -> BOOLEAN]
    BY Zenon DEF Init
  <2>2. entered \in [Signals -> 0..MaxEntered]
    BY DEF Init, Zero
  <2>3. /\ at \in Signals
        /\ told \in [Owners -> SUBSET Signals] /\ owed \in [Owners -> SUBSET Signals]
    BY DEF Init, Signals
  <2> QED BY <1>b, <2>1, <2>2, <2>3 DEF Init, TypeOK
<1>2. Control
  BY DEF Init, Control, Installing
<1>3. Counted
  BY <1>a DEF Init, Counted, Closing, Restoring
<1>4. Installed
  BY DEF Init, Installed, Signals
<1>5. Learned
  BY DEF Init, Learned, Installing, Closing
<1>6. Remembered
  BY DEF Init, Remembered, Restoring, Zero, Signals
<1> QED BY <1>1, <1>2, <1>3, <1>4, <1>5, <1>6 DEF Inv

\* Discarding an epoch keeps the types.
LEMMA DiscardTyped ==
  ASSUME Discard
  PROVE  /\ live' \in BOOLEAN /\ owners' \in Nat
         /\ baseline' \in Counters /\ reported' \in Counters
         /\ saved' \in [Signals -> {"original", "ours", "unset"}]
         /\ pending' \in [Signals -> BOOLEAN]
<1>1. Zero \in Counters
  BY DEF Zero, Counters
<1>2. pending' \in [Signals -> BOOLEAN]
  BY Zenon DEF Discard
<1> QED BY <1>1, <1>2 DEF Discard

\* Joining an epoch keeps the invariant.
LEMMA JoinKeeps == ASSUME Inv, NEW o \in Owners, Join(o) PROVE Inv'
<1>0. Cardinality(owns) \in Nat /\ IsFiniteSet(owns)
  BY FiniteOwns DEF Inv
<1>a. Cardinality(owns \cup {o}) = Cardinality(owns) + 1
  BY <1>0, FS_AddElement DEF Join
<1>1. CASE Healthy(count)
  <2>1. TypeOK'
    BY <1>1 DEF Inv, Join, Joins, signals, locals, TypeOK, Counters
  <2>2. Control'
    BY <1>1 DEF Inv, Join, Control, Installing
  <2>3. Counted'
    BY <1>a, <1>1 DEF Inv, Join, Joins, Counted, Closing, Restoring
  <2>4. Installed'
    BY <1>1 DEF Inv, Join, Joins, signals, TypeOK, Installed
  <2>5. Learned'
    BY <1>1
       DEF Inv, Join, Joins, signals, TypeOK, Installing, Closing, Learned, Loaded
  <2>6. Remembered'
    BY <1>1 DEF Inv, Join, Joins, signals, TypeOK, Restoring, Remembered, Loaded
  <2> QED BY <2>1, <2>2, <2>3, <2>4, <2>5, <2>6 DEF Inv
<1>2. CASE ~Healthy(count)
  <2>1. TypeOK'
    BY <1>2 DEF Inv, Join, epoch, signals, locals, TypeOK, Counters
  <2>2. Control'
    BY <1>2 DEF Inv, Join, Control, Installing
  <2>3. Counted'
    BY <1>2 DEF Inv, Join, epoch, Counted, Closing, Restoring
  <2>4. Installed'
    BY <1>2 DEF Inv, Join, epoch, signals, Installed
  <2>5. Learned'
    BY <1>2
       DEF Inv, Join, epoch, signals, TypeOK, Installing, Closing, Learned, Loaded
  <2>6. Remembered'
    BY <1>2 DEF Inv, Join, epoch, signals, Restoring, Remembered, Loaded
  <2> QED BY <2>1, <2>2, <2>3, <2>4, <2>5, <2>6 DEF Inv
<1> QED BY <1>1, <1>2

\* Starting an installation keeps the invariant.
LEMMA InstallKeeps == ASSUME Inv, NEW o \in Owners, Install(o) PROVE Inv'
<1>0. Cardinality(owns) \in Nat /\ IsFiniteSet(owns)
  BY FiniteOwns DEF Inv
<1>a. owns = {}
  BY <1>0, FS_EmptySet DEF Inv, Counted, Closing, Install
<1>1. TypeOK'
  BY DEF Inv, Install, Goto, signals, epoch, TypeOK, Counters, Signals
<1>2. Control'
  BY <1>a DEF Inv, Install, Goto, Control, Installing
<1>3. Counted'
  BY DEF Inv, Install, Goto, epoch, Counted, Closing, Restoring
<1>4. Installed'
  BY DEF Inv, Install, Goto, signals, epoch, Installed
<1>5. Learned'
  BY DEF Inv, Install, Goto, signals, epoch, TypeOK, Signals, Installing,
         Closing, Learned, Loaded
<1>6. Remembered'
  BY DEF Inv, Install, Goto, signals, epoch, Restoring, Remembered, Loaded
<1> QED BY <1>1, <1>2, <1>3, <1>4, <1>5, <1>6 DEF Inv

\* Reconciling with what an earlier owner left keeps the invariant.
LEMMA ReconcileKeeps == ASSUME Inv, Reconcile PROVE Inv'
<1>a. owns = {} /\ Cardinality(owns) = 0
  BY FS_EmptySet DEF Inv, Control, Installing, Reconcile
<1>b. Since(snap, reported) \subseteq Signals
  BY DEF Since
<1>c. ~Outstanding <=> \A s \in Signals : ~pending[s]
  BY DEF Outstanding
<1>1. CASE Outstanding
  <2>1. TypeOK'
    BY <1>b, <1>1 DEF Inv, Reconcile, Retain, Unlock, signals, TypeOK, Counters
  <2>2. Control'
    BY <1>1 DEF Inv, Reconcile, Unlock, Control, Installing
  <2>3. Counted'
    BY <1>1 DEF Inv, Reconcile, Retain, Unlock, Counted, Closing, Restoring
  <2>4. Installed'
    BY <1>1 DEF Inv, Reconcile, Retain, Unlock, signals, Installed
  <2>5. Learned'
    BY <1>1
       DEF Inv, Reconcile, Retain, Unlock, signals, TypeOK, Installing, Closing,
           Learned, Loaded
  <2>6. Remembered'
    BY <1>1
       DEF Inv, Reconcile, Retain, Admits, signals, Counted, Restoring,
           Remembered, Loaded
  <2> QED BY <2>1, <2>2, <2>3, <2>4, <2>5, <2>6 DEF Inv
<1>2. CASE ~Outstanding /\ Admits
  <2>1. TypeOK'
    BY <1>2, DiscardTyped
       DEF Inv, Reconcile, Goto, signals, TypeOK, Counters, Signals
  <2>2. Control'
    BY <1>2 DEF Inv, Reconcile, Goto, Control, Installing
  <2>3. Counted'
    BY <1>a, <1>2 DEF Inv, Reconcile, Discard, Goto, Counted, Closing, Restoring
  <2>4. Installed'
    BY <1>c, <1>2 DEF Inv, Reconcile, Discard, Goto, signals, Installed
  <2>5. Learned'
    BY <1>2
       DEF Inv, Reconcile, Discard, signals, Control, Installing, Closing,
           Learned, Loaded
  <2>6. Remembered'
    BY <1>c, <1>2
       DEF Inv, Reconcile, Discard, Admits, Since, signals, TypeOK, Restoring,
           Installed, Remembered, Loaded
  <2> QED BY <2>1, <2>2, <2>3, <2>4, <2>5, <2>6 DEF Inv
<1>3. CASE ~Outstanding /\ ~Admits
  <2>1. TypeOK'
    BY <1>b, <1>3, DiscardTyped
       DEF Inv, Reconcile, Unlock, signals, TypeOK, Counters
  <2>2. Control'
    BY <1>3 DEF Inv, Reconcile, Unlock, Control, Installing
  <2>3. Counted'
    BY <1>a, <1>3
       DEF Inv, Reconcile, Discard, Unlock, Counted, Closing, Restoring
  <2>4. Installed'
    BY <1>c, <1>3 DEF Inv, Reconcile, Discard, Unlock, signals, Installed
  <2>5. Learned'
    BY <1>3
       DEF Inv, Reconcile, Discard, Unlock, TypeOK, Control, Installing, Closing,
           Learned, Loaded
  <2>6. Remembered'
    BY <1>c, <1>3
       DEF Inv, Reconcile, Discard, Admits, signals, Restoring, Remembered, Loaded
  <2> QED BY <2>1, <2>2, <2>3, <2>4, <2>5, <2>6 DEF Inv
<1> QED BY <1>1, <1>2, <1>3

\* Beginning an epoch keeps the invariant.
LEMMA BeginKeeps == ASSUME Inv, Begin PROVE Inv'
<1>1. CASE Healthy(snap)
  <2>1. TypeOK'
    BY <1>1
       DEF Inv, Begin, Goto, signals, members, history, TypeOK, Counters, Signals
  <2>2. Control'
    BY <1>1 DEF Inv, Begin, Goto, members, Control, Installing
  <2>3. Counted'
    BY <1>1 DEF Inv, Begin, Goto, members, Counted, Closing, Restoring
  <2>4. Installed'
    BY <1>1 DEF Inv, Begin, Goto, signals, Signals, Counted, Installed
  <2>5. Learned'
    BY <1>1
       DEF Inv, Begin, Healthy, signals, members, history, TypeOK, Counters,
           Control, Installing, Closing, Learned, Loaded
  <2>6. Remembered'
    BY <1>1
       DEF Inv, Begin, Goto, signals, history, Restoring, Remembered, Loaded
  <2> QED BY <2>1, <2>2, <2>3, <2>4, <2>5, <2>6 DEF Inv
<1>2. CASE ~Healthy(snap)
  <2>1. TypeOK'
    BY <1>2 DEF Inv, Begin, Unlock, signals, members, history, TypeOK, Counters
  <2>2. Control'
    BY <1>2 DEF Inv, Begin, Unlock, Control, Installing
  <2>3. Counted'
    BY <1>2 DEF Inv, Begin, Unlock, members, Counted, Closing, Restoring
  <2>4. Installed'
    BY <1>2 DEF Inv, Begin, Unlock, signals, Installed
  <2>5. Learned'
    BY <1>2
       DEF Inv, Begin, Healthy, Unlock, signals, members, history, Installing,
           Closing, Learned, Loaded
  <2>6. Remembered'
    BY <1>2
       DEF Inv, Begin, Unlock, signals, history, Restoring, Installed,
           Remembered, Loaded
  <2> QED BY <2>1, <2>2, <2>3, <2>4, <2>5, <2>6 DEF Inv
<1> QED BY <1>1, <1>2

\* Registering a handler keeps the invariant.
LEMMA RegisterKeeps == ASSUME Inv, Register PROVE Inv'
<1>0. Cardinality(owns) \in Nat /\ IsFiniteSet(owns)
  BY FiniteOwns DEF Inv
<1>a. owns = {} /\ task = "begin" /\ owners = 0 /\ holder \in Owners
      /\ at \in {1, 2}
  BY <1>0, FS_EmptySet
     DEF Inv, TypeOK, Control, Counted, Installing, Closing, Register, Signals
<1>b. Cardinality({holder}) = 1 /\ Cardinality({}) = 0
  BY FS_Singleton, FS_EmptySet
<1>c. live
  BY <1>a DEF Inv, Installed, Register
<1>1. CASE at = 1
  <2>1. TypeOK'
    BY <1>1 DEF Inv, Register, history, TypeOK, Counters, Signals
  <2>2. Control'
    BY <1>1 DEF Inv, Register, Control, Installing
  <2>3. Counted'
    BY <1>b, <1>c, <1>1 DEF Inv, Register, Counted, Closing, Restoring
  <2>4. Installed'
    BY <1>1 DEF Inv, Register, TypeOK, Control, Installed
  <2>5. Learned'
    BY <1>1 DEF Inv, Register, history, Installing, Closing, Learned, Loaded
  <2>6. Remembered'
    BY <1>1 DEF Inv, Register, history, Restoring, Remembered, Loaded
  <2> QED BY <2>1, <2>2, <2>3, <2>4, <2>5, <2>6 DEF Inv
<1>2. CASE at # 1
  <2>1. TypeOK'
    BY <1>2 DEF Inv, Register, Unlock, history, TypeOK, Counters, Signals
  <2>2. Control'
    BY <1>2 DEF Inv, Register, Unlock, Control, Installing
  <2>3. Counted'
    BY <1>b, <1>c, <1>2
       DEF Inv, Register, Unlock, TypeOK, Control, Installing, Counted, Closing,
           Restoring
  <2>4. Installed'
    BY <1>2 DEF Inv, Register, Unlock, TypeOK, Signals, Control, Installed
  <2>5. Learned'
    BY <1>2
       DEF Inv, Register, Unlock, history, TypeOK, Control, Installing, Closing,
           Learned, Loaded
  <2>6. Remembered'
    BY <1>2 DEF Inv, Register, Unlock, history, Restoring, Remembered, Loaded
  <2> QED BY <2>1, <2>2, <2>3, <2>4, <2>5, <2>6 DEF Inv
<1> QED BY <1>1, <1>2

\* A registration that fails keeps the invariant.
LEMMA RegisterFailsKeeps == ASSUME Inv, RegisterFails PROVE Inv'
<1>1. TypeOK'
  BY DEF Inv, RegisterFails, Goto, signals, epoch, members, history, TypeOK,
         Counters, Signals
<1>2. Control'
  BY DEF Inv, RegisterFails, Goto, members, TypeOK, Control, Installing
<1>3. Counted'
  BY DEF Inv, RegisterFails, Goto, epoch, members, TypeOK, Signals, Control,
         Counted, Closing, Restoring, Installed
<1>4. Installed'
  BY DEF Inv, RegisterFails, Goto, signals, epoch, Installed
<1>5. Learned'
  BY DEF Inv, RegisterFails, Goto, signals, epoch, members, history, TypeOK,
         Control, Installing, Closing, Learned, Loaded
<1>6. Remembered'
  BY DEF Inv, RegisterFails, Goto, signals, epoch, history, Restoring,
         Remembered, Loaded
<1> QED BY <1>1, <1>2, <1>3, <1>4, <1>5, <1>6 DEF Inv

\* Taking one handler of a failed registration back keeps the invariant.
LEMMA RollbackKeeps == ASSUME Inv, Rollback PROVE Inv'
<1>a. owns = {} /\ Cardinality(owns) = 0
  BY FS_EmptySet DEF Inv, Control, Installing, Rollback
<1>b. Since(snap, baseline) \subseteq Signals
  BY DEF Since
<1>c. ~Outstanding <=> \A s \in Signals : ~pending[s]
  BY DEF Outstanding
<1>1. CASE Outstanding
  <2>1. TypeOK'
    BY <1>b, <1>1 DEF Inv, Rollback, Retain, Unlock, signals, TypeOK, Counters
  <2>2. Control'
    BY <1>1 DEF Inv, Rollback, Unlock, Control, Installing
  <2>3. Counted'
    BY <1>1 DEF Inv, Rollback, Retain, Unlock, Counted, Closing, Restoring
  <2>4. Installed'
    BY <1>1 DEF Inv, Rollback, Retain, Unlock, signals, Installed
  <2>5. Learned'
    BY <1>1
       DEF Inv, Rollback, Retain, Unlock, signals, Installing, Closing, Learned,
           Loaded
  <2>6. Remembered'
    BY <1>1
       DEF Inv, Rollback, Retain, signals, Counted, Restoring, Remembered, Loaded
  <2> QED BY <2>1, <2>2, <2>3, <2>4, <2>5, <2>6 DEF Inv
<1>2. CASE ~Outstanding
  <2>1. TypeOK'
    BY <1>b, <1>2, DiscardTyped
       DEF Inv, Rollback, Unlock, signals, TypeOK, Counters
  <2>2. Control'
    BY <1>2 DEF Inv, Rollback, Unlock, Control, Installing
  <2>3. Counted'
    BY <1>a, <1>2
       DEF Inv, Rollback, Discard, Unlock, Counted, Closing, Restoring
  <2>4. Installed'
    BY <1>c, <1>2 DEF Inv, Rollback, Discard, Unlock, signals, Installed
  <2>5. Learned'
    BY <1>2
       DEF Inv, Rollback, Discard, Unlock, Control, Installing, Closing, Learned,
           Loaded
  <2>6. Remembered'
    BY <1>c, <1>2
       DEF Inv, Rollback, Discard, signals, Restoring, Remembered, Loaded
  <2> QED BY <2>1, <2>2, <2>3, <2>4, <2>5, <2>6 DEF Inv
<1> QED BY <1>1, <1>2

\* Restoring a disposition keeps the invariant.
LEMMA RestoreKeeps == ASSUME Inv, Restore PROVE Inv'
<1>a. pending' \in [Signals -> BOOLEAN]
  <2>1. CASE pending' = pending
    BY <2>1 DEF Inv, TypeOK
  <2>2. CASE pending' = [pending EXCEPT ![at] = FALSE]
    BY <2>2, Zenon DEF Inv, TypeOK
  <2> QED BY <2>1, <2>2 DEF Restore
<1>b. disp' \in [Signals -> {"original", "ours"}]
  BY DEF Inv, TypeOK, Installed, Restore
<1>1. TypeOK'
  BY <1>a, <1>b DEF Inv, Restore, members, history, TypeOK, Counters, Signals
<1>2. Control'
  BY DEF Inv, Restore, members, Control, Installing
<1>3. Counted'
  BY DEF Inv, Restore, members, TypeOK, Counted, Closing, Restoring
<1>4. Installed'
  BY DEF Inv, Restore, TypeOK, Control, Counted, Restoring, Installed
<1>5. Learned'
  BY DEF Inv, Restore, members, history, TypeOK, Signals, Installing, Closing,
         Learned, Loaded
<1>6. Remembered'
  BY DEF Inv, Restore, history, Signals, Restoring, Remembered, Loaded
<1> QED BY <1>1, <1>2, <1>3, <1>4, <1>5, <1>6 DEF Inv

\* Loading a counter keeps the invariant.
LEMMA LoadKeeps == ASSUME Inv, Load PROVE Inv'
<1>1. TypeOK'
  BY DEF Inv, Load, signals, epoch, members, history, TypeOK, Counters, Signals
<1>2. Control'
  BY DEF Inv, Load, members, Control, Installing
<1>3. Counted'
  BY DEF Inv, Load, epoch, members, Counted, Closing, Restoring
<1>4. Installed'
  BY DEF Inv, Load, signals, epoch, Installed
<1>5. Learned'
  BY DEF Inv, Load, signals, epoch, members, history, TypeOK, Counters, Signals,
         Control, Installing, Closing, Learned, Loaded
<1>6. Remembered'
  BY DEF Inv, Load, signals, epoch, history, TypeOK, Counters, Signals,
         Restoring, Remembered, Loaded
<1> QED BY <1>1, <1>2, <1>3, <1>4, <1>5, <1>6 DEF Inv

\* Starting a check keeps the invariant.
LEMMA CheckKeeps == ASSUME Inv, NEW o \in Owners, Check(o) PROVE Inv'
<1>1. TypeOK'
  BY DEF Inv, Check, Goto, signals, epoch, members, history, TypeOK, Counters,
         Signals
<1>2. Control'
  BY DEF Inv, Check, Goto, members, Control, Installing
<1>3. Counted'
  BY DEF Inv, Check, Goto, epoch, members, Counted, Closing, Restoring
<1>4. Installed'
  BY DEF Inv, Check, Goto, signals, epoch, Installed
<1>5. Learned'
  BY DEF Inv, Check, Goto, signals, epoch, members, history, Signals, Installing,
         Closing, Learned, Loaded
<1>6. Remembered'
  BY DEF Inv, Check, Goto, signals, epoch, history, Restoring, Remembered, Loaded
<1> QED BY <1>1, <1>2, <1>3, <1>4, <1>5, <1>6 DEF Inv

\* The end of a check keeps the invariant.
LEMMA CheckedKeeps == ASSUME Inv, Checked PROVE Inv'
<1>0. Cardinality(owns) \in Nat /\ IsFiniteSet(owns)
  BY FiniteOwns DEF Inv
<1>a. owners # 0 /\ live
  BY <1>0, FS_EmptySet DEF Inv, Control, Counted, Closing, Restoring, Checked
<1>b. Since(snap, baseline) \subseteq Signals
  BY DEF Since
<1>1. TypeOK'
  BY <1>b DEF Inv, Checked, Unlock, signals, epoch, TypeOK, Counters
<1>2. Control'
  BY DEF Inv, Checked, Unlock, Control, Installing
<1>3. Counted'
  BY DEF Inv, Checked, Unlock, epoch, Counted, Closing, Restoring
<1>4. Installed'
  BY DEF Inv, Checked, Unlock, signals, epoch, Installed
<1>5. Learned'
  BY DEF Inv, Checked, Unlock, signals, epoch, Installing, Closing, Learned,
         Loaded
<1>6. Remembered'
  BY <1>a
     DEF Inv, Checked, Unlock, signals, epoch, Restoring, Remembered, Loaded
<1> QED BY <1>1, <1>2, <1>3, <1>4, <1>5, <1>6 DEF Inv

\* Starting to close keeps the invariant.
LEMMA CloseKeeps == ASSUME Inv, NEW o \in Owners, Close(o) PROVE Inv'
<1>0. Cardinality(owns) \in Nat /\ IsFiniteSet(owns)
  BY FiniteOwns DEF Inv
<1>a. owns # {} => owners > 0
  BY <1>0, FS_EmptySet DEF Inv, Counted, Closing, Close
<1>1. TypeOK'
  BY <1>a
     DEF Inv, Close, Goto, MustRestore, signals, members, history, TypeOK,
         Counters, Signals
<1>2. Control'
  BY DEF Inv, Close, Goto, MustRestore, members, Control, Installing
<1>3. Counted'
  BY <1>a
     DEF Inv, Close, Goto, MustRestore, members, Counted, Closing, Restoring
<1>4. Installed'
  BY DEF Inv, Close, Goto, MustRestore, signals, TypeOK, Installed
<1>5. Learned'
  BY DEF Inv, Close, Goto, MustRestore, signals, members, history, TypeOK,
         Signals, Installing, Closing, Learned, Loaded
<1>6. Remembered'
  BY DEF Inv, Close, Goto, MustRestore, signals, history, Signals, Restoring,
         Remembered, Loaded
<1> QED BY <1>1, <1>2, <1>3, <1>4, <1>5, <1>6 DEF Inv

\* The end of closing keeps the invariant.
LEMMA ClosedKeeps == ASSUME Inv, Closed PROVE Inv'
<1>0. Cardinality(owns) \in Nat /\ IsFiniteSet(owns)
  BY FiniteOwns DEF Inv
<1>a. Cardinality(owns \ {holder}) = Cardinality(owns) - 1 /\ holder \in owns
  BY <1>0, FS_RemoveElement DEF Inv, Control, Closed
<1>b. Since(snap, baseline) \subseteq Signals
  BY DEF Since
<1>c. Ends => \A s \in Signals : ~pending[s]
  BY DEF Ends, Outstanding
<1>d. /\ owed[holder] \subseteq Since(snap, baseline)
      /\ live /\ owners = Cardinality(owns) - 1
  BY <1>a
     DEF Inv, TypeOK, Counters, Counted, Learned, Closing, Restoring, Loaded,
         Since, Closed
<1>e. Cardinality(owns \ {holder}) = 0 => owns \ {holder} = {}
  BY <1>0, FS_RemoveElement, FS_EmptySet
<1>1. CASE owners # 0
  <2>1. TypeOK'
    BY <1>b, <1>1
       DEF Inv, Closed, epoch, Ends, Unlock, signals, TypeOK, Counters
  <2>2. Control'
    BY <1>1 DEF Inv, Closed, Ends, Unlock, Control, Installing
  <2>3. Counted'
    BY <1>a, <1>d, <1>1
       DEF Inv, Closed, epoch, Ends, Unlock, Counted, Closing, Restoring
  <2>4. Installed'
    BY <1>0, <1>a, <1>c, <1>d, <1>1
       DEF Inv, Closed, epoch, Ends, Unlock, signals, Installed
  <2>5. Learned'
    BY <1>d, <1>1
       DEF Inv, Closed, epoch, Ends, Unlock, signals, TypeOK, Installing,
           Closing, Learned, Loaded
  <2>6. Remembered'
    BY <1>d, <1>1
       DEF Inv, Closed, epoch, Ends, signals, Restoring, Remembered, Loaded
  <2> QED BY <2>1, <2>2, <2>3, <2>4, <2>5, <2>6 DEF Inv
<1>2. CASE owners = 0 /\ Ends
  <2>1. TypeOK'
    BY <1>b, <1>2, DiscardTyped
       DEF Inv, Closed, Ends, Unlock, signals, TypeOK, Counters
  <2>2. Control'
    BY <1>2 DEF Inv, Closed, Ends, Unlock, Control, Installing
  <2>3. Counted'
    BY <1>a, <1>2
       DEF Inv, Closed, Ends, Discard, Unlock, Counted, Closing, Restoring
  <2>4. Installed'
    BY <1>0, <1>c, <1>2 DEF Inv, Closed, Discard, Unlock, signals, Installed
  <2>5. Learned'
    <3>0. owns \ {holder} = {}
      BY <1>a, <1>d, <1>e, <1>2
    <3>1. owns' = {} /\ holder' = Nobody /\ ~live'
      BY <1>2, <3>0 DEF Closed, Ends, Discard, Retain, Unlock
    <3>2. ASSUME NEW o \in Owners PROVE owed'[o] \subseteq told'[o]
      <4>1. owed' = owed /\ told' = [told EXCEPT ![holder] = @ \cup Since(snap, baseline)]
        BY DEF Closed
      <4>2. told \in [Owners -> SUBSET Signals]
        BY DEF Inv, TypeOK
      <4>3. CASE o = holder
        BY <1>d, <4>1, <4>2, <4>3
      <4>4. CASE o # holder
        <5>1. owed[o] \subseteq told[o]
          BY <3>0, <4>4 DEF Inv, Learned
        <5> QED
          BY <4>1, <4>2, <4>4, <5>1
      <4> QED
        BY <4>3, <4>4
    <3> QED
      BY <3>1, <3>2 DEF Installing, Closing, Learned
  <2>6. Remembered'
    BY <1>c, <1>2
       DEF Inv, Closed, Ends, Discard, signals, Restoring, Remembered, Loaded
  <2> QED BY <2>1, <2>2, <2>3, <2>4, <2>5, <2>6 DEF Inv
<1>3. CASE owners = 0 /\ ~Ends
  <2>1. TypeOK'
    BY <1>b, <1>3
       DEF Inv, Closed, Ends, Retain, Unlock, signals, TypeOK, Counters
  <2>2. Control'
    BY <1>3 DEF Inv, Closed, Ends, Unlock, Control, Installing
  <2>3. Counted'
    BY <1>a, <1>3
       DEF Inv, Closed, Ends, Retain, Unlock, Counted, Closing, Restoring
  <2>4. Installed'
    BY <1>a, <1>b, <1>3
       DEF Inv, Closed, Ends, Retain, Unlock, signals, Installed
  <2>5. Learned'
    BY <1>d, <1>3
       DEF Inv, Closed, Ends, Retain, Unlock, signals, TypeOK, Installing,
           Closing, Learned, Loaded
  <2>6. Remembered'
    BY <1>3
       DEF Inv, Closed, Ends, Retain, signals, Counted, Restoring, Remembered,
           Loaded
  <2> QED BY <2>1, <2>2, <2>3, <2>4, <2>5, <2>6 DEF Inv
<1> QED BY <1>1, <1>2, <1>3

\* A signal entering its handler keeps the invariant.
LEMMA EnterKeeps == ASSUME Inv, NEW s \in Signals, Enter(s) PROVE Inv'
<1>1. TypeOK'
  BY DEF Inv, Enter, epoch, locals, members, history, TypeOK, Counters
<1>2. Control'
  BY DEF Inv, Enter, locals, members, Control, Installing
<1>3. Counted'
  BY DEF Inv, Enter, epoch, locals, members, Counted, Closing, Restoring
<1>4. Installed'
  BY DEF Inv, Enter, epoch, locals, Installed
<1>5. Learned'
  BY DEF Inv, Enter, epoch, locals, members, history, Installing, Closing,
         Learned, Loaded
<1>6. Remembered'
  BY DEF Inv, Enter, epoch, locals, history, Restoring, Remembered, Loaded
<1> QED BY <1>1, <1>2, <1>3, <1>4, <1>5, <1>6 DEF Inv

\* A handler publishing keeps the invariant.
LEMMA PublishKeeps == ASSUME Inv, NEW s \in Signals, Publish(s) PROVE Inv'
<1>0. Cardinality(owns) \in Nat /\ IsFiniteSet(owns)
  BY FiniteOwns DEF Inv
<1>a. /\ \A k \in Signals : count[k] <= count'[k] /\ count'[k] \in Nat
      /\ live => baseline[s] < count'[s]
  BY DEF Inv, TypeOK, Counters, Learned, Publish, OneMore
<1>b. owns # {} => live
  BY <1>0, FS_EmptySet DEF Inv, Counted, Closing, Restoring
<1>1. TypeOK'
  BY DEF Inv, Publish, OneMore, epoch, locals, members, TypeOK, Counters
<1>2. Control'
  BY DEF Inv, Publish, locals, members, Control, Installing
<1>3. Counted'
  BY DEF Inv, Publish, epoch, locals, members, Counted, Closing, Restoring
<1>4. Installed'
  BY DEF Inv, Publish, epoch, locals, Installed
<1>5. Learned'
  BY <1>a, <1>b
     DEF Inv, Publish, Sampled, epoch, locals, members, TypeOK, Counters,
         Control, Installing, Closing, Learned, Loaded
<1>6. Remembered'
  BY <1>a
     DEF Inv, Publish, epoch, locals, TypeOK, Counters, Counted, Restoring,
         Installed, Remembered, Loaded
<1> QED BY <1>1, <1>2, <1>3, <1>4, <1>5, <1>6 DEF Inv

\* So every step keeps the invariant.
LEMMA NextKeeps == ASSUME Inv, [Next]_vars PROVE Inv'
<1>1. CASE UNCHANGED vars
  <2>1. UNCHANGED <<signals, epoch, holder, locals, members, history>>
    BY <1>1 DEF vars, signals, epoch, locals, members, history
  <2>2. TypeOK'
    BY <2>1 DEF Inv, TypeOK, Counters, signals, epoch, locals, members, history
  <2>3. Control' /\ Counted'
    BY <2>1
       DEF Inv, Control, Counted, Installing, Closing, Restoring, signals, epoch,
           locals, members, history
  <2>4. Installed'
    BY <2>1 DEF Inv, Installed, signals, epoch, locals
  <2>5. Learned'
    BY <2>1
       DEF Inv, Learned, Installing, Closing, Loaded, signals, epoch, locals,
           members, history
  <2>6. Remembered'
    BY <2>1
       DEF Inv, Remembered, Restoring, Loaded, signals, epoch, locals, history
  <2> QED BY <2>2, <2>3, <2>4, <2>5, <2>6 DEF Inv
<1>2. CASE Next
  <2>1. ASSUME NEW o \in Owners, Join(o) \/ Install(o) \/ Check(o) \/ Close(o)
        PROVE  Inv'
    BY <2>1, JoinKeeps, InstallKeeps, CheckKeeps, CloseKeeps
  <2>2. ASSUME NEW s \in Signals, Enter(s) \/ Publish(s)
        PROVE  Inv'
    BY <2>2, EnterKeeps, PublishKeeps
  <2>3. CASE Reconcile \/ Begin \/ Register \/ RegisterFails \/ Rollback
    BY <2>3, ReconcileKeeps, BeginKeeps, RegisterKeeps, RegisterFailsKeeps,
       RollbackKeeps
  <2>4. CASE Restore \/ Load \/ Checked \/ Closed
    BY <2>4, RestoreKeeps, LoadKeeps, CheckedKeeps, ClosedKeeps
  <2> QED BY <1>2, <2>1, <2>2, <2>3, <2>4 DEF Next
<1> QED BY <1>1, <1>2

\* The strengthened invariant is inductive.
THEOREM Inductive == Spec => []Inv
BY InitHolds, NextKeeps, PTL DEF Spec

\* Types, for any number of owners and signals.
THEOREM TypeCorrect == Spec => []TypeOK
<1>1. Inv => TypeOK
  BY DEF Inv
<1> QED BY <1>1, Inductive, PTL

\* While anyone owns the signals both handlers are installed, and a disposition
\* that is ours is always one that the epoch still has to put back: no original
\* is ever overwritten by ours, whichever calls fail and whoever closes last.
THEOREM DispositionsAreRestored == Spec => []DispositionsMatch
<1>1. Inv => DispositionsMatch
  <2> SUFFICES ASSUME Inv PROVE DispositionsMatch
    OBVIOUS
  <2>1. ASSUME holder = Nobody, owns # {} PROVE owners > 0
    BY <2>1, FiniteOwns, FS_EmptySet DEF Inv, Counted, Closing
  <2> QED BY <2>1 DEF Inv, Installed, DispositionsMatch
<1> QED BY <1>1, Inductive, PTL

\* No owner finishes without having been told of every signal published while it
\* was one: the shared baseline of the epoch loses none of them, even when the
\* counters saturate.
THEOREM OwnersAreTold == Spec => []OwnersLearn
<1>1. Inv => OwnersLearn
  BY DEF Inv, Learned, OwnersLearn
<1> QED BY <1>1, Inductive, PTL

\* An epoch is forgotten only after a report that covers everything its handlers
\* published, those that ran during or after a failed restoration included.
THEOREM NothingIsForgotten == Spec => []NothingForgotten
<1>1. Inv => NothingForgotten
  BY DEF Inv, Remembered, NothingForgotten
<1> QED BY <1>1, Inductive, PTL

=============================================================================
