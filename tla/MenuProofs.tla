----------------------------- MODULE MenuProofs -----------------------------
(***************************************************************************)
(* Proofs about Menu, for every number of options and whatever the fields  *)
(* a constructor leaves unset may read as.                                 *)
(***************************************************************************)
EXTENDS Menu, TLAPS

(* The arrow is at the first option until menu(m) locks the menu.          *)
OpensAtFirst == phase = "opening" => selection = 0

(* A terminal option that is drawn can be chosen or was withdrawn.         *)
DrawnOrWithdrawn == terminalOpt => Choosable = 1 \/ withdrawn

(* num is the number of options also between runs; optCount need not be,   *)
(* so what CountsAgree says of it is kept apart from the lines drawn.      *)
Counted == phase # "idle" => optCount = size + Choosable

IInv ==
    /\ TypeOK
    /\ num = size
    /\ Counted
    /\ DrawnOrWithdrawn
    /\ OpensAtFirst
    /\ SelectionInRange
    /\ LockExplained

(* What the proofs use of the assumption.                                  *)
LEMMA Bounds == MaxOptions \in Nat /\ \A x \in Stray : x \in Int
  BY MenuAssumption, Zenon DEF MenuAssumption

(* The invariant in parts: the numbers and the flags of TypeOK apart.      *)
Numbers ==
    /\ size \in 0..MaxOptions
    /\ num = size
    /\ optCount \in 0..(MaxOptions + 1)
    /\ selection \in Int
    /\ result \in Int

Flags ==
    /\ hasTerminalOpt \in BOOLEAN
    /\ showTerminalOpt \in BOOLEAN
    /\ terminalOpt \in BOOLEAN
    /\ withdrawn \in BOOLEAN
    /\ wraps \in BOOLEAN
    /\ lock \in BOOLEAN
    /\ phase \in {"idle", "opening", "plain", "listening"}
    /\ lockedEmpty \in BOOLEAN
    /\ left \in {"never", "terminal", "option"}

(* The parts make the invariant, before a step and after it.               *)
LEMMA Parts ==
    /\ IInv <=> /\ Numbers /\ Flags /\ Counted /\ DrawnOrWithdrawn
                /\ OpensAtFirst /\ SelectionInRange /\ LockExplained
    /\ IInv' <=> /\ Numbers' /\ Flags' /\ Counted' /\ DrawnOrWithdrawn'
                 /\ OpensAtFirst' /\ SelectionInRange' /\ LockExplained'
  BY Zenon DEF IInv, TypeOK, Numbers, Flags

(* The terminal option is one option more, if it can be chosen.            *)
LEMMA ChoosableIsOne == Choosable \in {0, 1} /\ Choosable' \in {0, 1}
  BY Zenon DEF Choosable

(* Every way to construct a menu gives a state of the invariant.           *)
LEMMA Initially == Init => IInv
  <1> SUFFICES ASSUME Init PROVE IInv
    OBVIOUS
  <1>1. Flags
    BY Zenon DEF Init, FromOptions, WithoutOptions, Flags
  <1>2. Numbers
    <2>1. selection \in Int
      BY Bounds, SMT DEF Init, FromOptions, WithoutOptions
    <2>2. size \in 0..MaxOptions /\ num = size
      BY Bounds, SMT DEF Init, FromOptions, WithoutOptions
    <2>3. optCount \in {0, num, Choosable}
      BY Zenon DEF Init, FromOptions, WithoutOptions
    <2> QED
      BY <2>1, <2>2, <2>3, Bounds, ChoosableIsOne, SMT DEF Numbers, Init
  <1>3. /\ Counted /\ DrawnOrWithdrawn /\ OpensAtFirst
        /\ SelectionInRange /\ LockExplained
    BY Zenon DEF Init, Counted, DrawnOrWithdrawn, OpensAtFirst,
       SelectionInRange, LockExplained
  <1> QED BY <1>1, <1>2, <1>3, Parts

(* What updateOptCounts leaves: counts in range that agree with the menu.  *)
LEMMA CountsLeft ==
    ASSUME updateOptCounts, size' \in 0..MaxOptions
    PROVE  /\ num' = size'
           /\ optCount' = size' + Choosable'
           /\ optCount' \in 0..(MaxOptions + 1)
  <1>1. num' = size' /\ optCount' = size' + Choosable'
    BY Zenon DEF updateOptCounts, Choosable
  <1>2. PICK k \in {0, 1} : optCount' = size' + k
    BY <1>1, ChoosableIsOne, Zenon
  <1>3. ASSUME NEW n \in 0..MaxOptions PROVE n + k \in 0..(MaxOptions + 1)
    BY Bounds, SMT
  <1>4. optCount' \in 0..(MaxOptions + 1)
    BY <1>2, <1>3, Zenon
  <1> QED BY <1>1, <1>4, Zenon

(* The methods that a lock keeps out change nothing of a run of menu(m).   *)
LEMMA Kept ==
    ASSUME IInv, ~lock, UNCHANGED <<wraps, selection, running>>,
           size' \in 0..MaxOptions,
           hasTerminalOpt' \in BOOLEAN, showTerminalOpt' \in BOOLEAN,
           terminalOpt' \in BOOLEAN, withdrawn' \in BOOLEAN,
           DrawnOrWithdrawn',
           num' = size', optCount' = size' + Choosable'
    PROVE  IInv'
  <1>1. phase # "plain" /\ phase' = phase
    BY Zenon, Parts DEF LockExplained, running
  <1>2. Flags'
    BY Zenon, Parts DEF Flags, running
  <1>3. Numbers'
    <2>1. Numbers /\ UNCHANGED <<selection, result>>
      BY Parts, Zenon DEF running
    <2>2. PICK k \in {0, 1} : optCount' = size' + k
      BY ChoosableIsOne, Zenon
    <2>3. ASSUME NEW n \in 0..MaxOptions PROVE n + k \in 0..(MaxOptions + 1)
      BY Bounds, SMT
    <2> QED BY <2>1, <2>2, <2>3, Zenon DEF Numbers
  <1>4. Counted' /\ OpensAtFirst' /\ SelectionInRange' /\ LockExplained'
    BY <1>1, Zenon, Parts DEF Counted, OpensAtFirst, SelectionInRange,
       LockExplained, running
  <1> QED BY <1>2, <1>3, <1>4, Parts

(* Every step of Menu keeps the invariant.                                 *)
LEMMA Inductive == IInv /\ [Next]_vars => IInv'
  <1> SUFFICES ASSUME IInv, [Next]_vars PROVE IInv'
    OBVIOUS
  <1>0. /\ Numbers /\ Flags /\ Counted /\ DrawnOrWithdrawn
        /\ OpensAtFirst /\ SelectionInRange /\ LockExplained
    BY Parts
  <1>1. ASSUME NEW n \in 0..MaxOptions, LoadOptions(n) PROVE IInv'
    <2>1. /\ hasTerminalOpt' = FALSE
          /\ terminalOpt' = FALSE
          /\ withdrawn' = FALSE
          /\ showTerminalOpt' \in BOOLEAN
      BY <1>0, <1>1, Zenon DEF LoadOptions, Flags
    <2>2. DrawnOrWithdrawn'
      BY <2>1, Zenon DEF DrawnOrWithdrawn
    <2> QED BY <1>1, <2>1, <2>2, CountsLeft, Kept DEF LoadOptions
  <1>2. ASSUME NEW t \in BOOLEAN, SetTerminalOption(t) PROVE IInv'
    <2>1. /\ hasTerminalOpt' = TRUE
          /\ showTerminalOpt' = TRUE
          /\ Choosable' = 1
          /\ terminalOpt' \in BOOLEAN
          /\ withdrawn' \in BOOLEAN
      BY <1>2, Zenon DEF SetTerminalOption, Choosable
    <2>2. /\ ~lock
          /\ UNCHANGED <<wraps, selection, running>>
          /\ UNCHANGED <<size, num>>
          /\ optCount' = num + 1
      BY <1>2, Zenon DEF SetTerminalOption
    <2>3. /\ size' \in 0..MaxOptions
          /\ num' = size'
          /\ optCount' = size' + Choosable'
      BY <1>0, <2>1, <2>2, Zenon DEF Numbers
    <2>4. DrawnOrWithdrawn'
      BY <2>1, Zenon DEF DrawnOrWithdrawn
    <2> QED BY <2>1, <2>2, <2>3, <2>4, Kept
  <1>3. CASE AddOption
    <2>1. /\ size' = size + 1
          /\ size' \in 0..MaxOptions
      BY <1>0, <1>3, Bounds, SMT DEF AddOption, Numbers
    <2>2. /\ num' = size'
          /\ optCount' = size' + Choosable'
          /\ optCount' \in 0..(MaxOptions + 1)
      BY <1>3, <2>1, CountsLeft DEF AddOption
    <2>3. /\ UNCHANGED <<hasTerminalOpt, showTerminalOpt, wraps, selection>>
          /\ UNCHANGED <<terminalOpt, withdrawn>>
          /\ UNCHANGED <<lock, phase, lockedEmpty, left, result>>
          /\ Choosable' = Choosable
      BY <1>3, Zenon DEF AddOption, Choosable, terminal, running
    <2>4. /\ Flags' /\ LockExplained' /\ Counted' /\ DrawnOrWithdrawn'
          /\ OpensAtFirst'
      BY <1>0, <2>2, <2>3, Zenon DEF Flags, LockExplained, Counted,
         DrawnOrWithdrawn, OpensAtFirst
    <2>5. Numbers'
      BY <1>0, <2>1, <2>2, <2>3, Zenon DEF Numbers
    <2>6. SelectionInRange'
      BY <1>0, <2>1, <2>2, <2>3, ChoosableIsOne, SMT DEF Numbers, Counted,
         SelectionInRange
    <2> QED BY <2>4, <2>5, <2>6, Parts
  <1>4. ASSUME NEW v \in BOOLEAN, SetTerminalOptionVisibility(v) PROVE IInv'
    <2>1. /\ size' \in 0..MaxOptions
          /\ hasTerminalOpt' \in BOOLEAN
          /\ showTerminalOpt' \in BOOLEAN
          /\ terminalOpt' \in BOOLEAN
          /\ withdrawn' \in BOOLEAN
      BY <1>0, <1>4, Zenon DEF SetTerminalOptionVisibility, Numbers, Flags
    <2>2. DrawnOrWithdrawn'
      BY <1>4, Zenon DEF SetTerminalOptionVisibility, DrawnOrWithdrawn,
         Choosable
    <2> QED
      BY <1>4, <2>1, <2>2, CountsLeft, Kept DEF SetTerminalOptionVisibility
  <1>5. CASE ClearOptions
    <2>1. size' \in 0..MaxOptions
      BY <1>5, Bounds, SMT DEF ClearOptions
    <2>2. UNCHANGED terminal
      BY <1>5, Zenon DEF ClearOptions
    <2>3. DrawnOrWithdrawn'
      BY <1>0, <2>2, Zenon DEF terminal, DrawnOrWithdrawn, Choosable
    <2>4. /\ hasTerminalOpt' \in BOOLEAN /\ showTerminalOpt' \in BOOLEAN
          /\ terminalOpt' \in BOOLEAN /\ withdrawn' \in BOOLEAN
      BY <1>0, <2>2, Zenon DEF terminal, Flags
    <2> QED BY <1>5, <2>1, <2>3, <2>4, CountsLeft, Kept DEF ClearOptions
  <1>6. ASSUME NEW opt \in 0..MaxOptions, RemoveOption(opt) PROVE IInv'
    <2>1. size' \in 0..MaxOptions
      BY <1>0, <1>6, Bounds, SMT DEF RemoveOption, Numbers
    <2>2. /\ hasTerminalOpt' \in BOOLEAN /\ showTerminalOpt' \in BOOLEAN
          /\ terminalOpt' \in BOOLEAN /\ withdrawn' \in BOOLEAN
      BY <1>0, <1>6, Zenon DEF RemoveOption, Flags
    <2>3. DrawnOrWithdrawn'
      <3>1. /\ hasTerminalOpt' = (hasTerminalOpt /\ opt < num)
            /\ withdrawn' = (withdrawn \/ ~(opt < num))
            /\ UNCHANGED <<showTerminalOpt, terminalOpt>>
        BY <1>6, Zenon DEF RemoveOption
      <3>2. CASE opt < num
        BY <1>0, <3>1, <3>2, Zenon DEF DrawnOrWithdrawn, Choosable, Flags
      <3>3. CASE ~(opt < num)
        BY <3>1, <3>3, Zenon DEF DrawnOrWithdrawn
      <3> QED BY <3>2, <3>3
    <2> QED BY <1>6, <2>1, <2>2, <2>3, CountsLeft, Kept DEF RemoveOption
  <1>7. ASSUME NEW run \in {"opening", "listening"}, Begin(run) PROVE IInv'
    <2>1. /\ size' = size
          /\ num' = size'
          /\ optCount' = size' + Choosable'
          /\ optCount' \in 0..(MaxOptions + 1)
      BY <1>0, <1>7, CountsLeft DEF Begin, Numbers
    <2>2. /\ UNCHANGED <<hasTerminalOpt, showTerminalOpt, terminalOpt>>
          /\ UNCHANGED <<withdrawn, wraps, lock, lockedEmpty, left, result>>
          /\ phase = "idle" /\ phase' = run /\ selection' = 0
      BY <1>7, Zenon DEF Begin, terminal
    <2>3. Flags' /\ DrawnOrWithdrawn' /\ OpensAtFirst' /\ LockExplained'
      BY <1>0, <2>2, Zenon DEF Flags, DrawnOrWithdrawn, Choosable,
         OpensAtFirst, LockExplained
    <2>4. Numbers'
      BY <1>0, <2>1, <2>2, SMT DEF Numbers
    <2>5. Counted' /\ SelectionInRange'
      BY <2>1, <2>2, Zenon DEF Counted, SelectionInRange
    <2> QED BY <2>3, <2>4, <2>5, Parts
  <1>8. CASE StartMenu
    <2>1. /\ UNCHANGED <<size, num, optCount, hasTerminalOpt>>
          /\ UNCHANGED <<showTerminalOpt, terminalOpt, withdrawn>>
          /\ UNCHANGED <<wraps, selection, left, result>>
          /\ phase = "opening" /\ phase' = "plain"
          /\ lock' = TRUE
          /\ lockedEmpty' = (optCount = 0)
      BY <1>8, Zenon DEF StartMenu, options, terminal
    <2>2. /\ Flags' /\ DrawnOrWithdrawn' /\ OpensAtFirst' /\ LockExplained'
          /\ Counted'
      BY <1>0, <2>1, Zenon DEF Flags, DrawnOrWithdrawn, Choosable,
         OpensAtFirst, LockExplained, Counted
    <2>3. Numbers'
      BY <1>0, <2>1, Zenon DEF Numbers
    <2>4. SelectionInRange'
      <3>1. selection' = 0
        BY <1>0, <2>1, Zenon DEF OpensAtFirst
      <3>2. CASE optCount = 0
        BY <2>1, <3>1, <3>2, Zenon DEF SelectionInRange
      <3>3. CASE optCount # 0
        <4>1. optCount \in 0..(MaxOptions + 1) /\ optCount' = optCount
          BY <1>0, <2>1, Zenon DEF Numbers
        <4>2. 0 \in 0..(optCount - 1)
          BY <3>3, <4>1, Bounds, SMT
        <4> QED BY <3>1, <4>1, <4>2, Zenon DEF SelectionInRange
      <3> QED BY <3>2, <3>3
    <2> QED BY <2>2, <2>3, <2>4, Parts
  <1>9. CASE SelectionDecrease \/ SelectionIncrease
    <2>1. /\ UNCHANGED <<size, num, optCount, hasTerminalOpt,
                         showTerminalOpt, terminalOpt, withdrawn, wraps,
                         lock, phase, lockedEmpty, left, result>>
          /\ phase # "opening"
      BY <1>9, Zenon DEF SelectionDecrease, SelectionIncrease, options,
         terminal, running, InLoop
    <2>2. /\ Flags' /\ Counted' /\ LockExplained' /\ DrawnOrWithdrawn'
          /\ OpensAtFirst'
      BY <1>0, <2>1, Zenon DEF Flags, Counted, LockExplained, Choosable,
         DrawnOrWithdrawn, OpensAtFirst
    <2>3. \/ selection - 1 >= 0 /\ selection' = selection - 1
          \/ ~(selection - 1 >= 0) /\ selection' \in {optCount - 1, 0}
          \/ selection + 1 < optCount /\ selection' = selection + 1
          \/ ~(selection + 1 < optCount) /\ selection' \in {optCount - 1, 0}
      BY <1>9, Zenon DEF SelectionDecrease, SelectionIncrease
    <2>4. Numbers'
      BY <1>0, <2>1, <2>3, Bounds, SMT DEF Numbers
    <2>5. SelectionInRange'
      BY <1>0, <2>1, <2>3, Bounds, SMT DEF Numbers, SelectionInRange
    <2> QED BY <2>2, <2>4, <2>5, Parts
  <1>10. CASE ChooseTerminal \/ ChooseOption \/ ListenerEnds
    <2>1. /\ phase' = "idle"
          /\ UNCHANGED <<size, num, optCount, hasTerminalOpt,
                         showTerminalOpt, terminalOpt, withdrawn, wraps,
                         selection, lockedEmpty>>
          /\ result' \in {-1, selection, result}
      BY <1>10, Zenon DEF ChooseTerminal, ChooseOption, ListenerEnds, options,
         terminal
    <2>2. Counted' /\ SelectionInRange' /\ OpensAtFirst' /\ DrawnOrWithdrawn'
      BY <1>0, <2>1, Zenon DEF Counted, SelectionInRange, OpensAtFirst,
         DrawnOrWithdrawn, Choosable
    <2>3. Numbers'
      BY <1>0, <2>1, SMT DEF Numbers
    <2>4. Flags'
      BY <1>0, <1>10, <2>1, Zenon DEF ChooseTerminal, ChooseOption,
         ListenerEnds, Flags
    <2>5. LockExplained'
      <3> SUFFICES ASSUME lock' PROVE left' = "terminal"
        BY <2>1, Zenon DEF LockExplained
      <3>1. CASE ChooseTerminal
        BY <1>0, <3>1, Zenon DEF ChooseTerminal, LockExplained
      <3>2. CASE ChooseOption
        <4>1. lock /\ phase = "listening" /\ phase # "plain" /\ left' = left
          <5>1. lock' = (lock /\ phase = "listening")
            BY <3>2, Zenon DEF ChooseOption
          <5>2. lock /\ phase = "listening"
            BY <5>1, Zenon
          <5>3. left' = IF phase = "plain" THEN "option" ELSE left
            BY <3>2, Zenon DEF ChooseOption
          <5> QED BY <5>2, <5>3
        <4> QED BY <1>0, <4>1, Zenon DEF LockExplained
      <3>3. CASE ListenerEnds
        BY <1>0, <3>3, SMT DEF ListenerEnds, LockExplained
      <3> QED BY <1>10, <3>1, <3>2, <3>3
    <2> QED BY <2>2, <2>3, <2>4, <2>5, Parts
  <1>11. CASE UNCHANGED vars
    <2>1. /\ Numbers' /\ Flags' /\ Counted' /\ DrawnOrWithdrawn'
          /\ OpensAtFirst'
      BY <1>0, <1>11, Zenon DEF vars, options, terminal, running, Numbers,
         Flags, Counted, DrawnOrWithdrawn, OpensAtFirst, Choosable
    <2>2. SelectionInRange' /\ LockExplained'
      BY <1>0, <1>11, Zenon DEF vars, options, running, SelectionInRange,
         LockExplained
    <2> QED BY <2>1, <2>2, Parts
  <1> QED
    BY <1>1, <1>2, <1>3, <1>4, <1>5, <1>6, <1>7, <1>8, <1>9, <1>10, <1>11
       DEF Next

(* The invariant holds of every menu, at every step of its use.            *)
LEMMA Invariant == Spec => []IInv
  BY Initially, Inductive, PTL DEF Spec

(* The fields of a menu have their types: a count is never negative.       *)
THEOREM TypeCorrect == Spec => []TypeOK
  <1>1. IInv => TypeOK
    BY DEF IInv
  <1> QED BY <1>1, Invariant, PTL

(* A menu that runs counts what can be chosen (Menu.cpp:14), and draws one *)
(* line more only for a terminal option that was withdrawn (Menu.cpp:116). *)
THEOREM CountsOfRunAgree == Spec => []CountsAgree
  <1>1. IInv => CountsAgree
    <2> SUFFICES ASSUME IInv, phase # "idle"
                 PROVE  /\ num = size
                        /\ optCount = size + Choosable
                        /\ \/ Drawn = optCount
                           \/ Drawn = optCount + 1 /\ withdrawn
                           \/ Drawn = optCount - 1 /\ ~terminalOpt
      BY DEF CountsAgree
    <2>1. /\ Numbers /\ Counted /\ DrawnOrWithdrawn
          /\ terminalOpt \in BOOLEAN
      BY Parts, Zenon DEF Flags
    <2>2. num = size /\ optCount = size + Choosable /\ size \in Int
      BY <2>1, Bounds, SMT DEF Numbers, Counted
    <2>3. CASE ~terminalOpt
      <3>1. Drawn = size + 0
        BY <2>3, Zenon DEF Drawn
      <3> QED BY <2>2, <2>3, <3>1, ChoosableIsOne, SMT
    <2>4. CASE terminalOpt
      <3>1. Drawn = size + 1 /\ (Choosable = 1 \/ withdrawn)
        BY <2>1, <2>4, Zenon DEF Drawn, DrawnOrWithdrawn
      <3>2. CASE Choosable = 1
        BY <2>2, <3>1, <3>2, SMT
      <3>3. CASE Choosable = 0
        <4>1. Drawn = optCount + 1
          BY <2>2, <3>1, <3>3, SMT
        <4> QED BY <2>2, <3>1, <3>3, <4>1, SMT
      <3> QED BY <3>2, <3>3, ChoosableIsOne
    <2> QED BY <2>3, <2>4
  <1> QED BY <1>1, Invariant, PTL

(* From startMenu on the arrow of menu(m) stays at an option, whatever was *)
(* changed since init (Menu.cpp:119, 125, 182).                            *)
THEOREM ArrowAtOption == Spec => []SelectionInRange
  <1>1. IInv => SelectionInRange
    BY DEF IInv
  <1> QED BY <1>1, Invariant, PTL

(* endMenu never throws; a lock outlives its run only by the terminal      *)
(* option (Menu.cpp:205).                                                  *)
THEOREM LockOutlivesOnlyTerminal == Spec => []LockExplained
  <1>1. IInv => LockExplained
    BY DEF IInv
  <1> QED BY <1>1, Invariant, PTL

(* menu(m) returns the number of an option or -1 (Menu.cpp:205, 207).      *)
THEOREM ReturnsAnOption == Spec => ResultsDesignate
  <1> DEFINE Designates ==
        phase = "plain" /\ phase' = "idle" =>
            \/ result' \in 0..(size - 1)
            \/ result' = -1 /\ Choosable = 1 /\ selection = num
            \/ lockedEmpty /\ result' \in {-1, 0}
  <1>1. IInv /\ [Next]_vars => [Designates]_vars
    <2> SUFFICES ASSUME IInv, Next, phase = "plain", phase' = "idle"
                 PROVE  Designates
      BY DEF vars
    <2>1. ChooseTerminal \/ ChooseOption
      BY DEF Next, LoadOptions, SetTerminalOption, AddOption,
         SetTerminalOptionVisibility, ClearOptions, RemoveOption, Begin,
         StartMenu, SelectionDecrease, SelectionIncrease, ListenerEnds, running
    <2>2. CASE ChooseTerminal
      BY <2>2 DEF ChooseTerminal, isTerminalOption, Choosable
    <2>3. CASE ChooseOption
      <3>1. /\ Numbers /\ Counted /\ SelectionInRange
            /\ result' = selection
        BY <2>3, Parts, Zenon DEF ChooseOption
      <3>2. Choosable = 1 => selection # num
        <4>1. Choosable = 1 => hasTerminalOpt /\ showTerminalOpt
          BY SMT DEF Choosable
        <4> QED BY <2>3, <4>1, Zenon DEF ChooseOption, isTerminalOption
      <3> QED
        BY <3>1, <3>2, ChoosableIsOne, Bounds, SMT DEF Numbers,
           Counted, SelectionInRange
    <2> QED BY <2>1, <2>2, <2>3
  <1> QED BY <1>1, Invariant, PTL DEF Spec, ResultsDesignate

(* confirm is true exactly if the option chosen reads "Yes", in either     *)
(* order of the two (Menu.cpp:245, 247).                                   *)
THEOREM ConfirmMeansYes ==
    ASSUME NEW invert \in BOOLEAN, NEW val \in {0, 1}
    PROVE  confirm(invert, val) <=> confirmOpts(invert)[val + 1] = "Yes"
  <1>1. CASE val = 0
    BY <1>1, SMT DEF confirm, confirmOpts
  <1>2. CASE val = 1
    BY <1>2, SMT DEF confirm, confirmOpts
  <1> QED BY <1>1, <1>2
=============================================================================
