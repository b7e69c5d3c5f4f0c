-------------------------------- MODULE Menu --------------------------------
(***************************************************************************)
(* A text menu (Menu.cpp) and the two functions that run it: menu(m),      *)
(* which locks the menu against changes, and menu(m,al), which does not    *)
(* and hands every other key to a listener that may change the menu.       *)
(* Only the numbers of options are kept, not their texts, and of the       *)
(* terminal option whether its text is empty, as it is drawn by its text.  *)
(***************************************************************************)
EXTENDS Integers

CONSTANTS
    MaxOptions,     \* bound: options of an instance
    Stray           \* what an int the constructor did not set may read as

ASSUME MenuAssumption ==
    /\ MaxOptions \in Nat
    /\ Stray \subseteq Int

VARIABLES
    size,           \* options.size()
    num, optCount,  \* the two counts kept beside it
    hasTerminalOpt, showTerminalOpt,
    terminalOpt,    \* the text of the terminal option is not empty
    withdrawn,      \* history: the terminal option was hidden or removed
    wraps, selection,
    lock,           \* changes are refused
    phase,          \* "idle", or what the function that runs the menu does
    lockedEmpty,    \* history: menu(m) locked a menu without any option
    left,           \* history: how the last run of menu(m) ended
    result          \* what the last run returned, if not a key

terminal == <<hasTerminalOpt, showTerminalOpt, terminalOpt, withdrawn>>
options == <<size, num, optCount, terminal>>
running == <<lock, phase, lockedEmpty, left, result>>
vars == <<options, wraps, selection, running>>

(* The terminal option can be chosen: it is one option more in optCount.   *)
Choosable == IF hasTerminalOpt /\ showTerminalOpt THEN 1 ELSE 0

(* The lines of drawVertical: it draws the terminal option by its text.    *)
Drawn == size + (IF terminalOpt THEN 1 ELSE 0)

(* The constructors from an array or a collection; the one from a pointer  *)
(* and a length forgets optCount.  An array leaves the visibility unset.   *)
FromOptions ==
    /\ size \in 0..MaxOptions
    /\ num = size
    /\ optCount \in {0, num}
    /\ hasTerminalOpt = FALSE
    /\ showTerminalOpt \in BOOLEAN
    /\ wraps \in BOOLEAN
    /\ selection \in Stray \cup {0}

(* The constructors without options leave flags and wrapping unset.        *)
WithoutOptions ==
    /\ size = 0
    /\ num = 0
    /\ hasTerminalOpt \in BOOLEAN
    /\ showTerminalOpt \in BOOLEAN
    /\ optCount \in {0, Choosable}
    /\ wraps \in BOOLEAN
    /\ selection \in Stray \cup {0}

Init ==
    /\ FromOptions \/ WithoutOptions
    /\ terminalOpt = FALSE
    /\ withdrawn = FALSE
    /\ lock = FALSE
    /\ phase = "idle"
    /\ lockedEmpty = FALSE
    /\ left = "never"
    /\ result = 0

-----------------------------------------------------------------------------
(* The methods that change a menu.  They throw while it is locked, all but *)
(* addOption; a listener, or another thread, may call them during a run.   *)

updateOptCounts ==
    /\ num' = size'
    /\ optCount' = num' + (IF hasTerminalOpt' /\ showTerminalOpt' THEN 1 ELSE 0)

LoadOptions(n) ==
    /\ ~lock
    /\ size' = n
    /\ hasTerminalOpt' = FALSE
    /\ showTerminalOpt' \in {FALSE, showTerminalOpt}
    /\ terminalOpt' = FALSE
    /\ withdrawn' = FALSE
    /\ updateOptCounts
    /\ UNCHANGED <<wraps, selection, running>>

(* The text may be empty.                                                  *)
SetTerminalOption(text) ==
    /\ ~lock
    /\ hasTerminalOpt' = TRUE
    /\ showTerminalOpt' = TRUE
    /\ terminalOpt' = text
    /\ withdrawn' = FALSE
    /\ optCount' = num + 1
    /\ UNCHANGED <<size, num, wraps, selection, running>>

(* Fault: the counts are left for the next run.                            *)
AddOptionUncounted ==
    /\ size < MaxOptions
    /\ size' = size + 1
    /\ UNCHANGED <<num, optCount, terminal, wraps, selection, running>>

AddOption ==
    /\ size < MaxOptions
    /\ size' = size + 1
    /\ UNCHANGED terminal
    /\ updateOptCounts
    /\ UNCHANGED <<wraps, selection, running>>

SetTerminalOptionVisibility(visibility) ==
    /\ ~lock
    /\ hasTerminalOpt
    /\ showTerminalOpt' = visibility
    /\ withdrawn' = ~visibility
    /\ UNCHANGED <<size, hasTerminalOpt, terminalOpt>>
    /\ updateOptCounts
    /\ UNCHANGED <<wraps, selection, running>>

ClearOptions ==
    /\ ~lock
    /\ size' = 0
    /\ UNCHANGED terminal
    /\ updateOptCounts
    /\ UNCHANGED <<wraps, selection, running>>

(* Fault: an off-by-one, the terminal option is taken for the last option. *)
RemoveOptionPast(opt) ==
    /\ ~lock
    /\ opt < optCount
    /\ hasTerminalOpt' = (hasTerminalOpt /\ opt <= num)
    /\ withdrawn' = (withdrawn \/ ~(opt <= num))
    /\ size' = IF opt <= num THEN size - 1 ELSE size
    /\ UNCHANGED <<showTerminalOpt, terminalOpt>>
    /\ updateOptCounts
    /\ UNCHANGED <<wraps, selection, running>>

(* The option past the others is the terminal one; its text is kept.       *)
RemoveOption(opt) ==
    /\ ~lock
    /\ opt < optCount
    /\ hasTerminalOpt' = (hasTerminalOpt /\ opt < num)
    /\ withdrawn' = (withdrawn \/ ~(opt < num))
    /\ size' = IF opt < num THEN size - 1 ELSE size
    /\ UNCHANGED <<showTerminalOpt, terminalOpt>>
    /\ updateOptCounts
    /\ UNCHANGED <<wraps, selection, running>>

-----------------------------------------------------------------------------
(* A run of the menu: by menu(m), which is "opening" until it locks and    *)
(* "plain" then, or by menu(m,al), which is "listening".                   *)

(* The call of init, with which each of the two functions begins.          *)
Begin(run) ==
    /\ phase = "idle"
    /\ phase' = run
    /\ UNCHANGED <<size, terminal>>
    /\ updateOptCounts
    /\ selection' = 0
    /\ UNCHANGED <<wraps, lock, lockedEmpty, left, result>>

(* menu(m) locks; another thread may have changed the menu since init.     *)
StartMenu ==
    /\ phase = "opening"
    /\ phase' = "plain"
    /\ lock' = TRUE
    /\ lockedEmpty' = (optCount = 0)
    /\ UNCHANGED <<options, wraps, selection, left, result>>

(* The loop that waits for a key.                                          *)
InLoop == phase \in {"plain", "listening"}

(* Selecting up or down moves by one and wraps or stops at the ends.       *)
SelectionDecrease ==
    /\ InLoop
    /\ selection' = IF selection - 1 >= 0 THEN selection - 1
                    ELSE IF wraps THEN optCount - 1 ELSE 0
    /\ UNCHANGED <<options, wraps, running>>

(* Fault: an off-by-one at the last option.                                *)
SelectionIncreasePast ==
    /\ InLoop
    /\ selection' = IF selection + 1 <= optCount THEN selection + 1
                    ELSE IF wraps THEN 0 ELSE optCount - 1
    /\ UNCHANGED <<options, wraps, running>>

SelectionIncrease ==
    /\ InLoop
    /\ selection' = IF selection + 1 < optCount THEN selection + 1
                    ELSE IF wraps THEN 0 ELSE optCount - 1
    /\ UNCHANGED <<options, wraps, running>>

isTerminalOption == hasTerminalOpt /\ showTerminalOpt /\ selection = num

(* Fault: return -1 for a hidden terminal option too.                      *)
ChooseTerminalHidden ==
    /\ InLoop
    /\ hasTerminalOpt /\ selection + 1 >= num
    /\ phase' = "idle"
    /\ left' = IF phase = "plain" THEN "terminal" ELSE left
    /\ result' = -1
    /\ UNCHANGED <<options, wraps, selection, lock, lockedEmpty>>

(* menu(m) returns -1 before it comes to endMenu: the lock stays.          *)
ChooseTerminal ==
    /\ InLoop
    /\ isTerminalOption
    /\ phase' = "idle"
    /\ left' = IF phase = "plain" THEN "terminal" ELSE left
    /\ result' = -1
    /\ UNCHANGED <<options, wraps, selection, lock, lockedEmpty>>

(* Fault: return before endMenu, as for the terminal option.               *)
ChooseOptionLocked ==
    /\ InLoop
    /\ ~isTerminalOption
    /\ phase' = "idle"
    /\ left' = IF phase = "plain" THEN "option" ELSE left
    /\ result' = selection
    /\ UNCHANGED <<options, wraps, selection, lock, lockedEmpty>>

(* endMenu throws if the menu is not locked: such a run does not return.   *)
ChooseOption ==
    /\ InLoop
    /\ ~isTerminalOption
    /\ phase = "plain" => lock
    /\ lock' = (lock /\ phase = "listening")
    /\ phase' = "idle"
    /\ left' = IF phase = "plain" THEN "option" ELSE left
    /\ result' = selection
    /\ UNCHANGED <<options, wraps, selection, lockedEmpty>>

(* The listener has the run return the key it was given.                   *)
ListenerEnds ==
    /\ phase = "listening"
    /\ phase' = "idle"
    /\ UNCHANGED <<options, wraps, selection, lock, lockedEmpty, left, result>>

Next ==
    \/ \E n \in 0..MaxOptions : LoadOptions(n)
    \/ \E text \in BOOLEAN : SetTerminalOption(text)
    \/ AddOption
    \/ \E visibility \in BOOLEAN : SetTerminalOptionVisibility(visibility)
    \/ ClearOptions
    \/ \E opt \in 0..MaxOptions : RemoveOption(opt)
    \/ \E run \in {"opening", "listening"} : Begin(run)
    \/ StartMenu
    \/ SelectionDecrease
    \/ SelectionIncrease
    \/ ChooseTerminal
    \/ ChooseOption
    \/ ListenerEnds

Spec == Init /\ [][Next]_vars

(* confirm(text,invert): the order of its two options, and its result.     *)
confirmOpts(invert) == IF invert THEN <<"Yes", "No">> ELSE <<"No", "Yes">>
confirm(invert, val) == IF val = 0 THEN invert ELSE ~invert

-----------------------------------------------------------------------------

TypeOK ==
    /\ size \in 0..MaxOptions
    /\ num \in 0..MaxOptions
    /\ optCount \in 0..(MaxOptions + 1)
    /\ hasTerminalOpt \in BOOLEAN
    /\ showTerminalOpt \in BOOLEAN
    /\ terminalOpt \in BOOLEAN
    /\ withdrawn \in BOOLEAN
    /\ wraps \in BOOLEAN
    /\ selection \in Int
    /\ lock \in BOOLEAN
    /\ phase \in {"idle", "opening", "plain", "listening"}
    /\ lockedEmpty \in BOOLEAN
    /\ left \in {"never", "terminal", "option"}
    /\ result \in Int

(* While a menu runs, whatever the constructor left unset and others       *)
(* change, its counts are those of what can be chosen, and these are the   *)
(* lines it draws, but for the terminal option: one that was hidden or     *)
(* removed is still drawn, and one without a text counts but is not drawn. *)
CountsAgree ==
    phase # "idle" =>
        /\ num = size
        /\ optCount = size + Choosable
        /\ \/ Drawn = optCount
           \/ Drawn = optCount + 1 /\ withdrawn
           \/ Drawn = optCount - 1 /\ ~terminalOpt

(* Once menu(m) has locked the menu, the arrow is at an option that can be *)
(* chosen, whatever another thread changed since init and adds later: the  *)
(* lock keeps the options that the selection relies on.  The exception is  *)
(* a menu that had no option when it was locked, be it from the start (as  *)
(* Main.cpp:104 may have it) or since init.                                *)
SelectionInRange ==
    phase = "plain" =>
        \/ selection \in 0..(optCount - 1)
        \/ lockedEmpty /\ selection \in {-1, 0}

(* A menu is locked while menu(m) runs it, so endMenu never throws, and    *)
(* one that stays locked afterwards was last left by its terminal option.  *)
LockExplained ==
    /\ phase = "plain" => lock
    /\ lock /\ phase # "plain" => left = "terminal"

(* What menu(m) returns is the number of an option, or -1 for the terminal *)
(* option; only a menu that had no option when it was locked yields 0 or   *)
(* -1 for nothing at all.                                                  *)
ResultsDesignate ==
    [][phase = "plain" /\ phase' = "idle" =>
        \/ result' \in 0..(size - 1)
        \/ result' = -1 /\ Choosable = 1 /\ selection = num
        \/ lockedEmpty /\ result' \in {-1, 0}]_vars
=============================================================================
