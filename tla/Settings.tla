------------------------------ MODULE Settings ------------------------------
(***************************************************************************)
(* The two files that say which network to join, config.ini and            *)
(* networks.ini, and the three that use them: the start-up and the watcher *)
(* of the sysmodule (source/zt_port.cpp, source/main.cpp) and the overlay  *)
(* that rewrites them while the sysmodule runs (overlay/source/main.cpp).  *)
(*                                                                         *)
(* A file is absent or a sequence of the lines that matter: a section's    *)
(* header or a key with its value; comments and other keys are left out.   *)
(* Reading a file is one step, writing one is several, and another program *)
(* or a power failure may come between any two.                            *)
(***************************************************************************)
EXTENDS Naturals, Sequences, SequencesExt, FiniteSets

CONSTANTS
    Nets,       \* network ids: 16 hex digits, not all zero
    None,       \* no file, no value, no network
    Disks,      \* the two files as a console may find them at its first boot
    MaxChoices, \* bound: what the user does with the overlay
    MaxReboots  \* bound: power failures

(* The section that holds the module's own keys.  A network the overlay has
   saved is in a section named by its id. *)
Own == "sys-zerotier"

Line(k, v) == [k |-> k, v |-> v]
Lines ==
    [k : {"section"}, v : Nets \cup {Own}]
    \cup [k : {"nwid", "selected", "network", "toggle"}, v : Nets \cup {None}]

Texts == {None} \cup Seq(Lines)
Files == [config : Texts, saved : Texts]

(* A change of one key in a file, and a file that is being rewritten: what it
   will be and, as history, what it was. *)
Writes    == [file : {"config", "saved"}, section : Nets \cup {Own}, line : Lines]
Rewritten == [file : {"config", "saved"}, text : Seq(Lines), old : Texts]

ASSUME SettingsAssumption ==
    /\ None \notin Nets \cup {Own} \cup Seq(Lines) \cup Rewritten
    /\ \A d \in Disks : d \in Files
    /\ MaxChoices \in Nat
    /\ MaxReboots \in Nat

VARIABLES
    disk,    \* config.ini and networks.ini
    overlay, \* the file writes the overlay has still to make, and the one it is at
    choices, \* how often the user has used it, counted anew when the power
             \* failed in the middle of it
    node,    \* where the node thread is, and what it has read
    nwid,    \* m_nwid, None before a network id has been found
    reboots

filesVars == <<disk, overlay, choices, node, nwid, reboots>>

Resting == [todo |-> <<>>, at |-> None]
Booting == [pc |-> "mount", config |-> None, wroteTemplate |-> FALSE]

FilesInit ==
    /\ disk \in Disks
    /\ overlay = Resting
    /\ choices = 0
    /\ node = Booting
    /\ nwid = None
    /\ reboots = 0

(***************************************************************************)
(* Reading the files.                                                      *)
(***************************************************************************)

(* The section a line is in, None before the first header. *)
Section(file, i) ==
    LET headers == {j \in 1..i : file[j].k = "section"} IN
    IF headers = {} THEN None ELSE file[Max(headers)].v

Keys(file, k)  == {i \in DOMAIN file : file[i].k = k}
ValueAt(file, is) == IF is = {} THEN None ELSE file[Max(is)].v

(* The last assignment counts, whatever its section, and takes an earlier one
   back if it is empty. *)
ParseConfigString(file, key) == ValueAt(file, Keys(file, key))

(* The last assignment of a well-formed id. *)
ParseNwid(file) == ValueAt(file, {i \in Keys(file, "nwid") : file[i].v # None})

(* The first assignment in the section asked for. *)
ParseSavedNetwork(file, wanted) ==
    LET is == {i \in Keys(file, "nwid") : Section(file, i) = wanted} IN
    IF is = {} THEN None ELSE file[Min(is)].v

(* The only saved network. *)
ParseFirstSavedNetwork(file) ==
    LET is == {i \in Keys(file, "nwid") : /\ file[i].v # None
                                          /\ Section(file, i) \notin {None, Own}} IN
    IF Cardinality(is) = 1 THEN ValueAt(file, is) ELSE None

Text(file) == IF file = None THEN <<>> ELSE file

(* The network the user has selected among the saved ones. *)
Selection(config, saved) ==
    LET own == ParseConfigString(Text(saved), "selected")
        name == IF own # None THEN own ELSE ParseConfigString(Text(config), "network")
    IN IF name = None THEN None ELSE ParseSavedNetwork(Text(saved), name)

(* Mutant of Resolve: the first saved network, also if there are others. *)
ResolveAnySaved(config, saved) ==
    LET selection == Selection(config, saved)
        legacy == ParseNwid(Text(config))
    IN CASE selection # None -> selection
      [] selection = None /\ legacy # None -> legacy
      [] OTHER -> ParseNwid(Text(saved))

(* ResolveConfiguredNetworkId on what it has read: the selection, the id in
   config.ini, the only saved network.  A file that could not be read is None. *)
Resolve(config, saved) ==
    LET selection == Selection(config, saved)
        legacy == ParseNwid(Text(config))
    IN CASE selection # None -> selection
      [] selection = None /\ legacy # None -> legacy
      [] OTHER -> ParseFirstSavedNetwork(Text(saved))

(***************************************************************************)
(* The overlay.                                                            *)
(***************************************************************************)

(* ult::setIniFileValue (external): the key is replaced where it is, or added
   to its section, or with a new section. *)
SetIniFileValue(file, w) ==
    LET text == Text(file)
        here == {i \in DOMAIN text : Section(text, i) = w.section}
        old  == {i \in here : text[i].k = w.line.k}
    IN CASE old # {} -> ReplaceAt(text, Min(old), w.line)
         [] old = {} /\ here # {} -> InsertAt(text, Max(here) + 1, w.line)
         [] OTHER -> text \o <<Line("section", w.section), w.line>>

Write(file, section, line) == [file |-> file, section |-> section, line |-> line]

SelectNetwork(n)        == <<Write("saved", Own, Line("selected", n))>>
SaveAndSelectNetwork(n) == <<Write("saved", n, Line("nwid", n))>> \o SelectNetwork(n)
ToggleService           == <<Write("config", Own, Line("toggle", None))>>

(* The user enters an id, picks a saved network or flips a service switch. *)
UseOverlay ==
    /\ overlay = Resting
    /\ choices < MaxChoices
    /\ \E writes \in {SaveAndSelectNetwork(n) : n \in Nets} \cup {ToggleService}
              \cup {SelectNetwork(n) : n \in {m \in Nets : ParseSavedNetwork(Text(disk.saved), m) # None}} :
          overlay' = [overlay EXCEPT !.todo = writes]
    /\ choices' = choices + 1
    /\ UNCHANGED <<disk, node, nwid, reboots>>

(* The next write: the file is read, then opened and cut to nothing. *)
OpenForWriting ==
    /\ overlay.at = None
    /\ overlay.todo # <<>>
    /\ LET w == Head(overlay.todo) IN
       /\ overlay' = [todo |-> Tail(overlay.todo),
                      at |-> [file |-> w.file, text |-> SetIniFileValue(disk[w.file], w),
                              old |-> disk[w.file]]]
       /\ disk' = [disk EXCEPT ![w.file] = <<>>]
    /\ UNCHANGED <<choices, node, nwid, reboots>>

(* It is written as a whole and closed. *)
FinishWriting ==
    /\ overlay.at # None
    /\ disk' = [disk EXCEPT ![overlay.at.file] = overlay.at.text]
    /\ overlay' = [overlay EXCEPT !.at = None]
    /\ UNCHANGED <<choices, node, nwid, reboots>>

(***************************************************************************)
(* The node thread.                                                        *)
(***************************************************************************)
Busy(file) == overlay.at # None /\ overlay.at.file = file

(* ReadWholeFile: a file another program has open for writing may be refused. *)
Reads(file) == {disk[file]} \cup (IF Busy(file) THEN {None} ELSE {})

Goto(pc) == node' = [node EXCEPT !.pc = pc]

(* MountState: the list of saved networks is created once. *)
MountState ==
    /\ node.pc = "mount"
    /\ disk' = [disk EXCEPT !.saved = Text(@)]
    /\ Goto("config")
    /\ UNCHANGED <<overlay, choices, nwid, reboots>>

(* ResolveConfiguredNetworkId reads config.ini first, ... *)
ReadConfig ==
    /\ node.pc = "config"
    /\ \E text \in Reads("config") : node' = [node EXCEPT !.pc = "saved", !.config = text]
    /\ UNCHANGED <<disk, overlay, choices, nwid, reboots>>

(* ... then networks.ini.  A network found is joined: the first one by
   Initialize, another one by switchNetwork.  The watcher keeps the old one if
   it finds none; the start-up goes on waiting. *)
ReadSaved ==
    /\ node.pc = "saved"
    /\ \E text \in Reads("saved") :
          LET found == Resolve(node.config, text) IN
          /\ nwid' = IF found = None THEN nwid ELSE found
          /\ node' = [node EXCEPT !.config = None,
                                  !.pc = IF nwid' = None THEN "look" ELSE "config"]
    /\ UNCHANGED <<disk, overlay, choices, reboots>>

(* WaitForConfiguredNetworkId: no id yet; a template if there is no config.ini
   to read. *)
LookForConfig ==
    /\ node.pc = "look"
    /\ \E text \in Reads("config") :
          Goto(IF text = None /\ ~node.wroteTemplate THEN "delete" ELSE "config")
    /\ UNCHANGED <<disk, overlay, choices, nwid, reboots>>

(* WriteWholeFile with the template: the old file is deleted, ... *)
DeleteOld ==
    /\ node.pc = "delete"
    /\ disk' = IF Busy("config") THEN disk ELSE [disk EXCEPT !.config = None]
    /\ Goto("create")
    /\ UNCHANGED <<overlay, choices, nwid, reboots>>

(* ... a new one of its size created, unless there is one again, ... *)
CreateNew ==
    /\ node.pc = "create"
    /\ IF disk.config = None
       THEN disk' = [disk EXCEPT !.config = <<>>] /\ Goto("write")
       ELSE UNCHANGED disk /\ node' = [node EXCEPT !.pc = "config", !.wroteTemplate = TRUE]
    /\ UNCHANGED <<overlay, choices, nwid, reboots>>

Template == <<Line("section", Own), Line("network", None), Line("nwid", None), Line("toggle", None)>>

(* ... and written, if it can be opened. *)
WriteNew ==
    /\ node.pc = "write"
    /\ disk' = IF Busy("config") THEN disk ELSE [disk EXCEPT !.config = Template]
    /\ node' = [node EXCEPT !.pc = "config", !.wroteTemplate = TRUE]
    /\ UNCHANGED <<overlay, choices, nwid, reboots>>

(* The power fails: the files stay as they are, everything else is gone. *)
PowerFailure ==
    /\ reboots < MaxReboots
    /\ reboots' = reboots + 1
    /\ node' = Booting
    /\ nwid' = None
    /\ overlay' = Resting
    /\ choices' = IF overlay = Resting THEN choices ELSE 0
    /\ UNCHANGED disk

Node        == MountState \/ ReadConfig \/ ReadSaved \/ LookForConfig \/ DeleteOld \/ CreateNew \/ WriteNew
OverlayStep == OpenForWriting \/ FinishWriting

(* The node thread polls for ever; the overlay ends what it has begun. *)
FilesFairness == WF_filesVars(Node) /\ WF_filesVars(OverlayStep)

(***************************************************************************)
(* Properties.                                                             *)
(***************************************************************************)
FilesTypeOK ==
    /\ disk \in Files
    /\ overlay \in [todo : Seq(Writes), at : {None} \cup Rewritten]
    /\ choices \in 0..MaxChoices
    /\ node \in [pc : {"mount", "config", "saved", "look", "delete", "create", "write"},
                 config : Texts, wroteTemplate : BOOLEAN]
    /\ nwid \in Nets \cup {None}
    /\ reboots \in 0..MaxReboots

(* A file without regard to a rewrite that is not over. *)
Whole(file) == IF Busy(file) THEN overlay.at.old ELSE disk[file]

(* Two complete files ask for network n: it is the one selected among the
   saved ones; if none is, the id in config.ini; failing that too, the only
   one that is saved. *)
Asks(config, saved, n) ==
    LET selection == Selection(config, saved)
        legacy    == ParseNwid(Text(config))
    IN \/ n = selection
       \/ selection = None /\ n = legacy
       \/ selection = None /\ legacy = None /\ n = ParseFirstSavedNetwork(Text(saved))

(* The node read one of the files without its contents: networks.ini now, or
   config.ini before. *)
SavedCut  == Busy("saved")
ConfigCut == Text(node.config) = <<>> /\ Text(Whole("config")) # <<>>

(* The node joins the network that the two files ask for, as they are between
   two rewrites, although it reads one after the other and the overlay and the
   power may change or cut them before, between and after.  A file read without
   its contents takes it to no third network: without networks.ini it may join
   the id in config.ini, without config.ini what networks.ini asks for alone. *)
JoinsWhatWasAsked ==
    [][nwid' \notin {nwid, None} =>
          \/ Asks(Whole("config"), Whole("saved"), nwid')
          \/ SavedCut /\ Asks(Whole("config"), None, nwid')
          \/ ConfigCut /\ Asks(None, Whole("saved"), nwid')]_filesVars

(* What the comment on ResolveConfiguredNetworkId says of networks.ini and its
   rewriting: a failed or incomplete read only means another try, so it takes a
   node off its network to no other one.  The code falls back on config.ini. *)
IncompleteReadKeepsNetwork ==
    [][nwid # None /\ SavedCut => nwid' \in {nwid, None}]_filesVars

(* The node is on the network the files on the disk ask for, if they do. *)
OnSelectedNetwork == Resolve(disk.config, disk.saved) \in {None, nwid}
=============================================================================
