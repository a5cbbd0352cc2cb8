----------------------------- MODULE BootPolicy -----------------------------
(***************************************************************************)
(* BootPolicy: PlatformBm.c, what the boot manager offers.                 *)
(*                                                                         *)
(* On every boot BDS registers the consoles, restores the variables from   *)
(* the "VNOR" device, registers its own boot options and keys, has all     *)
(* devices enumerated, takes the VNOR device's options out again and       *)
(* offers what is left.  Boot options and keys are variables: each write   *)
(* is a step, and a reset may come after any of them.  A warm reset keeps  *)
(* them all if the store is reserved memory; a cold one loses all but the  *)
(* keys, as Boot* and the consoles are never saved (see NvVars).           *)
(*                                                                         *)
(* UefiBootManagerLib is external, modelled from what the calls promise.   *)
(***************************************************************************)
EXTENDS Naturals, Sequences, FiniteSets, SequencesExt

CONSTANTS
  UI, Menu, Shell, \* the platform's own boot options
  VnorOptions,     \* options whose device path has the node of the VNOR device
  Disks,           \* options of other devices, found by enumeration
  UserOptions,     \* options the user adds
  F2, Esc,         \* the keys of the menu
  Displays,        \* handles with a graphics output protocol
  Serial, Keyboard, \* the hard coded console devices
  ModeLists,       \* text modes: columns times rows of each, 0 if its query fails
  None,
  ReservedStore,   \* PcdEmuVariableNvStoreReserved # 0: RAM may survive a reset
  MaxNumber,       \* bound: of the Boot#### numbers
  Budget           \* bounds of the environment: resets, faults, changes by the user

Options     == {UI, Menu, Shell} \union VnorOptions \union Disks \union UserOptions
AutoCreated == VnorOptions \union Disks
Numbers     == 0 .. MaxNumber
KeyNumbers  == 0 .. 2
KeyOptions  == [key : {F2, Esc}, num : Numbers, opt : Options]
Consoles    == {"ConIn", "ConOut", "ErrOut"}
Steps       == {"connect", "outputs", "consoles", "restore", "ui", "menu", "f2", "esc", "refresh",
                "withdraw", "enumerate", "vnor", "shell", "mode", "offer", "changed"}

ASSUME OptionsAssumption ==
  /\ UI # Menu /\ UI # Shell /\ Menu # Shell /\ F2 # Esc
  /\ None \notin Options \union KeyOptions \union [num : Numbers, opt : Options, next : Steps]
  /\ IsFiniteSet(VnorOptions) /\ IsFiniteSet(Disks) /\ IsFiniteSet(Displays)
  /\ {UI, Menu, Shell} \cap (AutoCreated \union UserOptions) = {}
  /\ VnorOptions \cap Disks = {} /\ UserOptions \cap AutoCreated = {}
  /\ Serial \notin Displays /\ Keyboard \notin Displays
ASSUME BoundAssumption ==
  /\ MaxNumber \in Nat /\ ReservedStore \in BOOLEAN
  /\ Budget \in [{"reset", "fault", "user"} -> Nat]
  /\ \A l \in ModeLists : l \in Seq(Nat) /\ l # << >>

VARIABLES
  BootOrder, \* the variable: a sequence of numbers
  Boot,      \* the variables Boot####
  Key,       \* the variables Key####: key, option's number and the CRC of its contents
  console,   \* the variables ConIn, ConOut, ErrOut
  loaded,    \* the flag that says the store holds the variables of the image
  image,     \* the keys saved on the VNOR device
  connected, \* ConnectedToDisk
  step,      \* of BDS
  todo,      \* what is left of the list a loop runs over
  adding,    \* an option whose number is in BootOrder, the option not yet stored
  text,      \* modes and mode of the text console
  missing,   \* history: own options this boot could not register
  budget

store == <<BootOrder, Boot, Key, console, loaded>>
vars  == <<store, image, connected, step, todo, adding, text, missing, budget>>

Spend(k) == budget[k] > 0 /\ budget' = [budget EXCEPT ![k] = @ - 1]
NoKeys   == [k \in KeyNumbers |-> None]
NoText   == [modes |-> << >>, mode |-> 0]

(* EfiBootManagerGetLoadOptions: numbers without a variable are left out.  *)
GetLoadOptions == {n \in Range(BootOrder) : Boot[n] # None}
Listed(o)      == {n \in GetLoadOptions : Boot[n] = o}
FindLoadOption(o) == Listed(o) # {}

Free           == Numbers \ Range(BootOrder)

(* EfiBootManagerAddLoadOptionVariable takes the least number BootOrder    *)
(* does not have, and writes BootOrder first, then Boot####.               *)
AddLoadOptionVariable(o, first, next) ==
  /\ Free # {}
  /\ LET n == Min(Free)
     IN  /\ BootOrder' = IF first THEN <<n>> \o BootOrder ELSE Append(BootOrder, n)
         /\ adding' = [num |-> n, opt |-> o, next |-> next]
  /\ UNCHANGED <<Boot, Key, console, loaded>>

StoreOption ==
  /\ adding # None
  /\ Boot' = [Boot EXCEPT ![adding.num] = adding.opt]
  /\ step' = adding.next
  /\ adding' = None
  /\ UNCHANGED <<BootOrder, Key, console, loaded, image, connected, todo, text, missing, budget>>

(* EfiBootManagerDeleteLoadOptionVariable takes the number out of          *)
(* BootOrder, if it is there; the variable Boot#### stays.                 *)
DeleteLoadOptionVariable(n) ==
  IF n \in Range(BootOrder)
    THEN \E i \in DOMAIN BootOrder : BootOrder[i] = n /\ BootOrder' = RemoveAt(BootOrder, i)
    ELSE UNCHANGED BootOrder

Init ==
  /\ BootOrder = << >> /\ Boot = [n \in Numbers |-> None] /\ Key = NoKeys
  /\ console = [v \in Consoles |-> {}] /\ loaded = FALSE /\ image = NoKeys
  /\ connected = FALSE /\ step = "connect" /\ todo = << >> /\ adding = None
  /\ text = NoText /\ missing = {} /\ budget = Budget

-----------------------------------------------------------------------------
(* PlatformBootManagerBeforeConsole.                                       *)

(* The PCI root bridges and then the display devices are connected; what   *)
(* comes of it is a list of handles with a graphics output protocol, if    *)
(* there is any.                                                           *)
ConnectDisplays ==
  /\ step = "connect"
  /\ \E d \in SUBSET Displays : \E s \in SetToSeqs(d) : todo' = s
  /\ step' = "outputs"
  /\ UNCHANGED <<store, image, connected, adding, text, missing, budget>>

(* EfiBootManagerUpdateConsoleVariable for d in the variables vs.          *)
UpdateConsoles(d, vs) ==
  console' = [v \in Consoles |-> IF v \in vs THEN console[v] \union {d} ELSE console[v]]

(* Mutant of AddOutput: it goes on to ErrOut when ConOut was not written.  *)
AddOutputGoesOn ==
  /\ step = "outputs" /\ todo # << >>
  /\ todo' = Tail(todo)
  /\ \/ UpdateConsoles(Head(todo), {"ConOut", "ErrOut"}) /\ UNCHANGED budget
     \/ UpdateConsoles(Head(todo), {"ErrOut"}) /\ Spend("fault")
  /\ UNCHANGED <<BootOrder, Boot, Key, loaded, image, connected, step, adding, text, missing>>

(* AddOutput: the handle has no device path, or ConOut or ErrOut cannot be *)
(* written: it returns at the first failure.                               *)
AddOutput ==
  /\ step = "outputs" /\ todo # << >>
  /\ todo' = Tail(todo)
  /\ \/ UpdateConsoles(Head(todo), {"ConOut", "ErrOut"}) /\ UNCHANGED budget
     \/ \E vs \in {{}, {"ConOut"}} : UpdateConsoles(Head(todo), vs) /\ Spend("fault")
  /\ UNCHANGED <<BootOrder, Boot, Key, loaded, image, connected, step, adding, text, missing>>

FilterAndProcess ==
  /\ step = "outputs" /\ todo = << >>
  /\ step' = "consoles"
  /\ UNCHANGED <<store, image, connected, todo, adding, text, missing, budget>>

(* The keyboard and the serial console; what the calls return is ignored.  *)
(* The loop over the block devices that follows sees a list of handles.    *)
AddFixedConsoles ==
  /\ step = "consoles"
  /\ \E failed \in {{}} \union {{c} : c \in Consoles \union {Keyboard}} :
       /\ IF failed = {} THEN UNCHANGED budget ELSE Spend("fault")
       /\ console' = [v \in Consoles |->
            console[v] \union (IF v \in failed THEN {} ELSE {Serial})
                      \union (IF v = "ConIn" /\ Keyboard \notin failed THEN {Keyboard} ELSE {})]
  /\ step' = "restore"
  /\ todo' \in {<<"other", "vnor">>, <<"vnor", "vnor">>, << >>}
  /\ UNCHANGED <<BootOrder, Boot, Key, loaded, image, connected, adding, text, missing>>

(* ConnectNvVarsToBlockIo loads the image unless the store was loaded      *)
(* before, and then saves, whether it could load or not.  NvVars has the   *)
(* steps; a save that fails may leave no image.                            *)
ConnectNvVarsToBlockIo ==
  \E failed \in SUBSET {"load", "save"} :
    /\ IF failed = {} THEN UNCHANGED budget ELSE Spend("fault")
    /\ Key' = IF loaded \/ "load" \in failed THEN Key
              ELSE [k \in KeyNumbers |-> IF image[k] = None THEN Key[k] ELSE image[k]]
    /\ connected' = ("save" \notin failed)
    /\ loaded' = (loaded \/ failed # {"load", "save"})
    /\ image' \in IF "save" \in failed THEN {image, NoKeys} ELSE {Key'}

VisitingBlockIoInstance ==
  /\ step = "restore" /\ todo # << >>
  /\ todo' = Tail(todo)
  /\ IF connected \/ Head(todo) = "other"
       THEN UNCHANGED <<connected, loaded, Key, image, budget>>
       ELSE ConnectNvVarsToBlockIo
  /\ UNCHANGED <<BootOrder, Boot, console, step, adding, text, missing>>

VisitAllInstancesOfProtocol ==
  /\ step = "restore" /\ todo = << >>
  /\ step' = "ui"
  /\ UNCHANGED <<store, image, connected, todo, adding, text, missing, budget>>

(* Once it is connected, each change of a variable has all of them saved.  *)
EmuVariablesUpdatedCallback ==
  /\ connected /\ image # Key
  /\ \/ image' = Key /\ UNCHANGED budget
     \/ image' = NoKeys /\ Spend("fault")
  /\ UNCHANGED <<store, connected, step, todo, adding, text, missing>>

-----------------------------------------------------------------------------
(* The platform's own options and keys.                                    *)

(* An option that cannot be added is only asserted (nothing of it stays,   *)
(* its number is taken out of BootOrder again): a release build goes on.   *)
PlatformRegisterFvBootOption(here, o, next) ==
  /\ step = here /\ adding = None
  /\ \/ FindLoadOption(o) /\ step' = next /\ UNCHANGED <<store, adding, missing, budget>>
     \/ /\ ~FindLoadOption(o) /\ AddLoadOptionVariable(o, FALSE, next)
        /\ UNCHANGED <<step, missing, budget>>
     \/ /\ ~FindLoadOption(o) /\ Spend("fault")
        /\ step' = next /\ missing' = missing \union {o}
        /\ UNCHANGED <<store, adding>>
  /\ UNCHANGED <<image, connected, todo, text>>

(* EfiBootManagerGetBootManagerMenu adds the option, as the first, when no *)
(* option leads to the menu.                                               *)
GetBootManagerMenu ==
  /\ step = "menu" /\ adding = None
  /\ IF FindLoadOption(Menu)
       THEN step' = "f2" /\ UNCHANGED <<store, adding>>
       ELSE AddLoadOptionVariable(Menu, TRUE, "f2") /\ UNCHANGED step
  /\ UNCHANGED <<image, connected, todo, text, missing, budget>>

(* A key counts only while Boot#### has the contents it was made for.      *)
Valid == {k \in KeyNumbers : Key[k] # None /\ Boot[Key[k].num] = Key[k].opt}

(* EfiBootManagerAddKeyOptionVariable takes the least number no valid key  *)
(* has; EFI_ALREADY_STARTED is as good as EFI_SUCCESS.                     *)
PlatformRegisterKey(here, key, next) ==
  /\ step = here
  /\ Key' = IF \E k \in Valid : Key[k].key = key THEN Key
            ELSE [Key EXCEPT ![Min(KeyNumbers \ Valid)] =
                    [key |-> key, num |-> Min(Listed(Menu)), opt |-> Menu]]
  /\ step' = next
  /\ UNCHANGED <<BootOrder, Boot, console, loaded, image, connected, todo, adding, text, missing, budget>>

PlatformRegisterOptionsAndKeys ==
  \/ GetBootManagerMenu
  \/ PlatformRegisterKey("f2", F2, "esc")
  \/ PlatformRegisterKey("esc", Esc, "refresh")

-----------------------------------------------------------------------------
(* PlatformBootManagerAfterConsole.                                        *)

(* EfiBootManagerRefreshAllBootOption: the devices' options, in the order  *)
(* of the handles.  Options of devices that are gone are deleted, those    *)
(* that are not there yet added.                                           *)
RefreshAllBootOption ==
  /\ step = "refresh"
  /\ \E d \in SUBSET Disks : \E s \in SetToSeqs(VnorOptions \union d) : todo' = s
  /\ step' = "withdraw"
  /\ UNCHANGED <<store, image, connected, adding, text, missing, budget>>

Withdraw ==
  /\ step = "withdraw"
  /\ LET gone == {n \in GetLoadOptions : Boot[n] \in AutoCreated \ Range(todo)}
     IN  \/ \E n \in gone : DeleteLoadOptionVariable(n) /\ UNCHANGED step
         \/ gone = {} /\ step' = "enumerate" /\ UNCHANGED BootOrder
  /\ UNCHANGED <<Boot, Key, console, loaded, image, connected, todo, adding, text, missing, budget>>

Enumerate ==
  /\ step = "enumerate" /\ adding = None /\ todo # << >>
  /\ todo' = Tail(todo)
  /\ IF FindLoadOption(Head(todo))
       THEN UNCHANGED <<store, adding>>
       ELSE AddLoadOptionVariable(Head(todo), FALSE, "enumerate")
  /\ UNCHANGED <<image, connected, step, text, missing, budget>>

(* PlatformRemoveVNOROption runs over the options as they were at first;   *)
(* the numbers without a variable, which are not among them, it passes by. *)
LoadOptionsForRemoval ==
  /\ step = "enumerate" /\ adding = None /\ todo = << >>
  /\ step' = "vnor"
  /\ todo' = BootOrder
  /\ UNCHANGED <<store, image, connected, adding, text, missing, budget>>

(* Mutants of PlatformRemoveVNOROption: it passes over the option after    *)
(* one it has removed, or deletes by the index instead of the number.      *)
RemoveVNOROptionSkips ==
  /\ step = "vnor" /\ todo # << >>
  /\ IF Boot[Head(todo)] \in VnorOptions
       THEN /\ DeleteLoadOptionVariable(Head(todo))
            /\ todo' = (IF Len(todo) > 1 THEN Tail(Tail(todo)) ELSE << >>)
       ELSE UNCHANGED BootOrder /\ todo' = Tail(todo)
  /\ UNCHANGED <<Boot, Key, console, loaded, image, connected, step, adding, text, missing, budget>>

RemoveVNOROptionByIndex ==
  /\ step = "vnor" /\ todo # << >>
  /\ todo' = Tail(todo)
  /\ IF Boot[Head(todo)] \in VnorOptions
       THEN DeleteLoadOptionVariable(Len(BootOrder) - Len(todo))
       ELSE UNCHANGED BootOrder
  /\ UNCHANGED <<Boot, Key, console, loaded, image, connected, step, adding, text, missing, budget>>

PlatformRemoveVNOROption ==
  /\ step = "vnor" /\ todo # << >>
  /\ todo' = Tail(todo)
  /\ IF Boot[Head(todo)] \in VnorOptions
       THEN DeleteLoadOptionVariable(Head(todo))
       ELSE UNCHANGED BootOrder
  /\ UNCHANGED <<Boot, Key, console, loaded, image, connected, step, adding, text, missing, budget>>

NoneLeftToRemove ==
  /\ step = "vnor" /\ todo = << >>
  /\ step' = "shell"
  /\ UNCHANGED <<store, image, connected, todo, adding, text, missing, budget>>

(* The loop of ConsoleSetBestMode: the first of the modes with most cells, *)
(* the mode 0 if no query succeeds.                                        *)
BestMode(l) ==
  LET best[m \in 0 .. Len(l)] ==
        IF m = 0 THEN [mode |-> 1, cells |-> 0]
        ELSE IF l[m] > best[m - 1].cells THEN [mode |-> m, cells |-> l[m]]
        ELSE best[m - 1]
  IN best[Len(l)].mode

ConsoleSetBestMode ==
  /\ step = "mode"
  /\ \E l \in ModeLists : text' = [modes |-> l, mode |-> BestMode(l)]
  /\ step' = "offer"
  /\ UNCHANGED <<store, image, connected, todo, adding, missing, budget>>

PlatformBootManagerBeforeConsole ==
  \/ ConnectDisplays \/ AddOutput \/ FilterAndProcess \/ AddFixedConsoles
  \/ VisitingBlockIoInstance \/ VisitAllInstancesOfProtocol
  \/ PlatformRegisterFvBootOption("ui", UI, "menu")
  \/ PlatformRegisterOptionsAndKeys

PlatformBootManagerAfterConsole ==
  \/ RefreshAllBootOption \/ Withdraw \/ Enumerate
  \/ LoadOptionsForRemoval \/ PlatformRemoveVNOROption \/ NoneLeftToRemove
  \/ PlatformRegisterFvBootOption("shell", Shell, "mode")
  \/ ConsoleSetBestMode

-----------------------------------------------------------------------------
(* The environment.                                                        *)

(* The menus: the user adds an option, deletes one that is not hidden, or  *)
(* puts one first.                                                         *)
Offering == step \in {"offer", "changed"} /\ adding = None

UserAdds(o) ==
  /\ Offering /\ ~FindLoadOption(o) /\ Spend("user")
  /\ AddLoadOptionVariable(o, FALSE, "changed")
  /\ UNCHANGED <<image, connected, step, todo, text, missing>>

UserDeletes(n) ==
  /\ Offering /\ Spend("user")
  /\ Boot[n] \notin {UI, Menu}
  /\ DeleteLoadOptionVariable(n)
  /\ step' = "changed"
  /\ UNCHANGED <<Boot, Key, console, loaded, image, connected, todo, adding, text, missing>>

UserPutsFirst(n) ==
  /\ Offering /\ Spend("user")
  /\ \E i \in DOMAIN BootOrder : BootOrder[i] = n /\ BootOrder' = <<n>> \o RemoveAt(BootOrder, i)
  /\ step' = "changed"
  /\ UNCHANGED <<Boot, Key, console, loaded, image, connected, todo, adding, text, missing>>

(* Warm, the store and its flag are kept if the memory is reserved for it. *)
Reset ==
  /\ Spend("reset")
  /\ \/ ReservedStore /\ UNCHANGED store
     \/ /\ BootOrder' = << >> /\ Boot' = [n \in Numbers |-> None] /\ Key' = NoKeys
        /\ console' = [v \in Consoles |-> {}] /\ loaded' = FALSE
  /\ step' = "connect" /\ connected' = FALSE
  /\ todo' = << >> /\ adding' = None /\ text' = NoText /\ missing' = {}
  /\ UNCHANGED image

User ==
  \/ \E o \in UserOptions : UserAdds(o)
  \/ \E n \in GetLoadOptions : UserDeletes(n) \/ UserPutsFirst(n)

Next ==
  \/ PlatformBootManagerBeforeConsole \/ PlatformBootManagerAfterConsole
  \/ StoreOption \/ EmuVariablesUpdatedCallback \/ User \/ Reset

Spec == Init /\ [][Next]_vars

-----------------------------------------------------------------------------
(* Type invariant.  BootOrder names no number twice, and the display       *)
(* devices of ErrOut are in ConOut (AddOutput).                            *)
TypeOK ==
  /\ BootOrder \in Seq(Numbers) /\ IsInjective(BootOrder)
  /\ Boot \in [Numbers -> Options \union {None}]
  /\ Key \in [KeyNumbers -> KeyOptions \union {None}] /\ image \in [KeyNumbers -> KeyOptions \union {None}]
  /\ console \in [Consoles -> SUBSET (Displays \union {Serial, Keyboard})]
  /\ console["ErrOut"] \ {Serial} \subseteq console["ConOut"]
  /\ loaded \in BOOLEAN /\ connected \in BOOLEAN
  /\ step \in Steps
  /\ adding \in [num : Numbers, opt : Options, next : Steps] \union {None}
  /\ text.mode \in DOMAIN text.modes \union {0} /\ missing \subseteq {UI, Shell}
  /\ budget \in [{"reset", "fault", "user"} -> Nat]

VnorGone     == \A o \in VnorOptions : ~FindLoadOption(o)
OwnOnce      == \A o \in {UI, Menu} :
                  Cardinality(Listed(o)) = 1 \/ (o \in missing /\ Listed(o) = {})
KeysReachMenu ==
  \A key \in {F2, Esc} :
    /\ \E k \in Valid : Key[k].key = key
    /\ \A k \in Valid : Key[k].key = key => Key[k].opt = Menu
BestModeIsSet == \A m \in DOMAIN text.modes : text.modes[m] <= text.modes[text.mode]

(* Whatever was left by interrupted boots, stale keys and removed options  *)
(* included: what the boot manager offers has no option that leads to the  *)
(* VNOR device, the UI and the menu exactly once, the shell until the user *)
(* deletes it (the UI and the shell unless this boot failed to add them);  *)
(* F2 and Esc lead to the menu; no text mode is larger.                    *)
OffersSettled ==
  Offering => /\ VnorGone /\ OwnOnce /\ KeysReachMenu /\ BestModeIsSet
              /\ step = "offer" => FindLoadOption(Shell) \/ Shell \in missing

(* The user's options in BootOrder; an option that is just being added has *)
(* a number whose variable may be an old one.                              *)
OfUser == {n \in Range(BootOrder) : Boot[n] \in UserOptions /\ (adding = None \/ adding.num # n)}
Precedes(s, m, n) == \E i, j \in DOMAIN s : i < j /\ s[i] = m /\ s[j] = n
Chosen == [options |-> [n \in OfUser |-> Boot[n]],
           order   |-> {p \in OfUser \X OfUser : Precedes(BootOrder, p[1], p[2])}]

(* Until it offers them, BDS neither takes out nor overwrites nor reorders *)
(* an option of the user: what it adds has a number of its own, and what   *)
(* it removes it removes by number, though the list has become shorter.    *)
UserOptionsKept ==
  [][step \notin {"offer", "changed"} /\ step' # "connect" => Chosen' = Chosen]_vars

=============================================================================
