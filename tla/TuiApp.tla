------------------------------- MODULE TuiApp -------------------------------
(***************************************************************************)
(* The terminal UI: a state machine of modes over an in-memory copy of the *)
(* configuration, the file it is loaded from and saved to, and the daemon  *)
(* that systemd starts on that file.  One action per key that does         *)
(* something in the mode at hand.  A text field holds any text when Enter  *)
(* is pressed, whatever it was pre-filled with, and the cursor of a fixed  *)
(* menu stands on any entry.  Messages, drawing and the status poll are    *)
(* left out.                                                               *)
(***************************************************************************)
EXTENDS Config, Integers, FiniteSets

CONSTANTS Files,     \* the files an operator starts from
          Rewrites,  \* the files an operator writes by hand later
          Torn,      \* a file cut short: it does not parse
          MaxEdits   \* bound on the changes the wizards and prompts commit

ASSUME FilesAssumption == Files \cup Rewrites \subseteq Configs
ASSUME EditsAssumption == MaxEdits \in Nat

Tabs == {"Status", "Links", "Service", "Peers"}
LinkModes == {"ChooseTemplate", "AddLinkId", "AddLinkDirection", "AddLinkAddress"}
PeerModes == {"AddPeerName", "AddPeerPublicKey", "AddPeerLinks"}
Prompts   == {"ConfirmRemoveLink", "ConfirmRemovePeer", "ConfirmServiceAction"}
\* The entries that change the service; enabling, disabling and the logs do not.
ServiceMenu == {"Start", "Stop", "Restart", "InstallUnit"}

VARIABLES file,         \* the configuration file, Torn if it does not parse
          byTui,        \* history: the file was last written by save_config
          touched,      \* history: written by hand since the App read or wrote it
          daemon,       \* how the last start of the service went, or "stopped"
          unit,         \* the unit file is installed
          mode,         \* app.mode, "Closed" while no App exists
          tab, config, dirty, links_selected, peers_selected,
          linkWizard,   \* pending_link_id, pending_link_mode, editing_original_id
          peerWizard,   \* the same for a peer, with the checklist and its cursor
          pending_service_action,
          sound,        \* history: App::new loaded a valid configuration
          chosen,       \* history: ids or names selected when the wizard or prompt opened
          offered,      \* history: links the peer in the wizard had, or that were toggled
          edits         \* changes committed so far, at most MaxEdits

systemVars == <<file, byTui, touched, daemon, unit>>
configVars == <<config, dirty, edits>>
cursorVars == <<links_selected, peers_selected>>
wizardVars == <<linkWizard, peerWizard>>
ghostVars  == <<sound, chosen, offered>>
tuiVars    == <<systemVars, mode, tab, configVars, cursorVars, wizardVars,
                pending_service_action, ghostVars>>

\* Not started or stopped, or how run_daemon went.
DaemonStates == {"stopped", "refused", "no key", "panicked", "failed", "ended", "running"}

NoLink == [id |-> None, mode |-> None, original |-> None]
NoPeer == [name |-> None, public_key |-> None, links |-> <<>>, cursor |-> 0, original |-> None]

TuiTypeOK ==
  /\ file \in Configs \cup {Torn}
  /\ daemon \in DaemonStates
  /\ {byTui, touched, unit, dirty, sound} \subseteq BOOLEAN
  /\ mode \in {"Closed", "Normal"} \cup LinkModes \cup PeerModes \cup Prompts
  /\ tab \in Tabs
  /\ pending_service_action \in ServiceMenu \cup {None}
  /\ edits \in 0..MaxEdits
  /\ IF mode = "Closed" THEN config = None
     ELSE /\ config \in Configs
          /\ links_selected \in {0} \cup 0..(Len(config.links) - 1)
          /\ peers_selected \in {0} \cup 0..(Len(config.peers) - 1)
          /\ peerWizard.cursor \in {0} \cup 0..(Len(config.links) - 1)

TuiInit ==
  /\ file \in Files /\ byTui = FALSE /\ touched = FALSE /\ daemon = "stopped" /\ unit = FALSE
  /\ mode = "Closed" /\ tab = "Status" /\ config = None /\ dirty = FALSE /\ edits = 0
  /\ links_selected = 0 /\ peers_selected = 0
  /\ linkWizard = NoLink /\ peerWizard = NoPeer /\ pending_service_action = None
  /\ sound = FALSE /\ chosen = {} /\ offered = {}
-----------------------------------------------------------------------------
(***************************************************************************)
(* Opening, leaving, switching tabs, saving.                               *)
(***************************************************************************)
\* A new App on configuration c, or no App at all when c is None.
NewApp(c) ==
  /\ mode' = IF c = None THEN "Closed" ELSE "Normal"
  /\ tab' = "Status" /\ config' = c /\ dirty' = FALSE
  /\ links_selected' = 0 /\ peers_selected' = 0
  /\ linkWizard' = NoLink /\ peerWizard' = NoPeer /\ pending_service_action' = None
  /\ sound' = (c # None /\ Valid(c)) /\ chosen' = {} /\ offered' = {}
  /\ UNCHANGED edits

\* App::new loads the file and does not validate it.
Open == /\ mode = "Closed" /\ file # Torn
        /\ NewApp(file)
        /\ touched' = FALSE /\ UNCHANGED <<file, byTui, daemon, unit>>

\* Unsaved changes are dropped without a question.
Quit == /\ mode = "Normal"
        /\ NewApp(None)
        /\ touched' = FALSE /\ UNCHANGED <<file, byTui, daemon, unit>>

SwitchTab(t) == /\ mode = "Normal"
                /\ tab' = t
                /\ UNCHANGED <<systemVars, mode, configVars, cursorVars, wizardVars,
                               pending_service_action, ghostVars>>

SaveKey == mode = "Normal" /\ tab \in {"Links", "Peers"}
AfterSave == /\ touched' = FALSE
             /\ UNCHANGED <<daemon, unit, mode, tab, config, edits, cursorVars,
                            wizardVars, pending_service_action, ghostVars>>

\* Mutant: what is in memory is written, valid or not.
SaveUnchecked == /\ SaveKey
                 /\ file' = config /\ byTui' = TRUE /\ dirty' = FALSE
                 /\ AfterSave

\* Mutant: a refused save, too, leaves nothing to save.
SaveAlwaysClean == /\ SaveKey
                   /\ file' = IF Valid(config) THEN config ELSE file
                   /\ byTui' = (byTui \/ Valid(config))
                   /\ dirty' = FALSE
                   /\ AfterSave

\* save_config; an invalid configuration is refused and nothing changes.  What
\* the file holds by now is not looked at.
Save == /\ SaveKey /\ Valid(config)
        /\ file' = config /\ byTui' = TRUE /\ dirty' = FALSE
        /\ AfterSave

\* std::fs::write has truncated the file when it fails, or the machine stops.
SaveTorn == /\ SaveKey /\ Valid(config)
            /\ file' = Torn /\ byTui' = TRUE
            /\ UNCHANGED dirty
            /\ AfterSave
-----------------------------------------------------------------------------
(***************************************************************************)
(* The Links tab.                                                          *)
(***************************************************************************)
On(t) == mode = "Normal" /\ tab = t

\* A step of a wizard: neither the configuration nor a selection changes.
WizardStep == UNCHANGED <<systemVars, tab, configVars, cursorVars, pending_service_action, sound>>

\* The history of a wizard or prompt ends with it.
Forget == chosen' = {} /\ offered' = {}

\* A change to the configuration, held in memory until it is saved.
Edited == /\ dirty' = TRUE
          /\ edits' = edits + 1
          /\ mode' = "Normal"
          /\ Forget
          /\ UNCHANGED <<systemVars, tab, pending_service_action, sound>>

MoveCursor(i, delta, n) == (i + delta + n) % n
WithoutIndex(s, i) == SubSeq(s, 1, i) \o SubSeq(s, i + 2, Len(s))
\* Vec::retain: the elements of s at the indices in kept, in their order.
Retain(s, kept) ==
  [k \in 1..Cardinality(kept) |->
     s[CHOOSE i \in kept : Cardinality({j \in kept : j <= i}) = k]]
SaturatingDec(i) == IF i = 0 THEN 0 ELSE i - 1

HasLink == links_selected < Len(config.links)
SelectedLink == config.links[links_selected + 1]

MoveLinkSelection(delta) ==
  /\ On("Links") /\ config.links # <<>>
  /\ links_selected' = MoveCursor(links_selected, delta, Len(config.links))
  /\ UNCHANGED <<systemVars, mode, tab, configVars, peers_selected, wizardVars,
                 pending_service_action, ghostVars>>

BeginAddLink ==
  /\ On("Links") /\ edits < MaxEdits
  /\ linkWizard' = NoLink /\ mode' = "ChooseTemplate"
  /\ chosen' = {}
  /\ WizardStep /\ UNCHANGED <<peerWizard, offered>>

\* The direction is asked for anew.
BeginEditLink ==
  /\ On("Links") /\ HasLink /\ edits < MaxEdits
  /\ linkWizard' = [NoLink EXCEPT !.original = SelectedLink.id]
  /\ mode' = "AddLinkId"
  /\ chosen' = {SelectedLink.id}
  /\ WizardStep /\ UNCHANGED <<peerWizard, offered>>

\* A template fixes the direction, "Custom" (None) leaves it open.
ConfirmTemplateChoice(m) ==
  /\ mode = "ChooseTemplate"
  /\ linkWizard' = [linkWizard EXCEPT !.mode = m]
  /\ mode' = "AddLinkId"
  /\ WizardStep /\ UNCHANGED <<peerWizard, chosen, offered>>

\* Esc in any step, or Enter on an empty id or address.
CancelLinkWizard ==
  /\ mode \in LinkModes
  /\ linkWizard' = NoLink /\ mode' = "Normal"
  /\ WizardStep /\ Forget /\ UNCHANGED peerWizard

ConfirmLinkId(id) ==
  /\ mode = "AddLinkId"
  /\ linkWizard' = [linkWizard EXCEPT !.id = id]
  /\ mode' = IF linkWizard.mode # None THEN "AddLinkAddress" ELSE "AddLinkDirection"
  /\ WizardStep /\ UNCHANGED <<peerWizard, chosen, offered>>

ChooseLinkMode(m) ==
  /\ mode = "AddLinkDirection"
  /\ linkWizard' = [linkWizard EXCEPT !.mode = m]
  /\ mode' = "AddLinkAddress"
  /\ WizardStep /\ UNCHANGED <<peerWizard, chosen, offered>>

\* Mutant: the id under edit is taken before the address is checked.
RefuseAddressTaken ==
  /\ mode = "AddLinkAddress"
  /\ linkWizard' = [linkWizard EXCEPT !.original = None]
  /\ WizardStep /\ UNCHANGED <<mode, peerWizard, chosen, offered>>

\* Enter on a text that does not parse: the wizard stays where it is.
RefuseAddress == mode = "AddLinkAddress" /\ BadTexts # {} /\ UNCHANGED tuiVars

\* The link under the wizard's id, always TCP, replaces the one under edit and
\* any other of that id, at the end of the list.
CommitLink(addr) ==
  LET w    == linkWizard
      link == [id |-> w.id, mode |-> w.mode, transport |-> "tcp",
               listen |-> IF LinkNeedsListen(config.role, w.mode) THEN addr ELSE None,
               target |-> IF LinkNeedsListen(config.role, w.mode) THEN None ELSE addr]
      kept == Retain(config.links, {i \in DOMAIN config.links :
                                      config.links[i].id \notin {w.original, w.id}})
  IN  /\ config' = [config EXCEPT !.links = Append(kept, link)]
      /\ links_selected' = Len(kept)
      /\ linkWizard' = NoLink
      /\ Edited /\ UNCHANGED <<peers_selected, peerWizard>>

\* Mutant: an address that does not parse is taken, too.
ConfirmAnyAddress(addr) == mode = "AddLinkAddress" /\ \E a \in {addr} \cup BadTexts : CommitLink(a)

ConfirmLinkAddress(addr) == mode = "AddLinkAddress" /\ CommitLink(addr)

AskRemoveLink ==
  /\ On("Links") /\ HasLink /\ edits < MaxEdits
  /\ mode' = "ConfirmRemoveLink"
  /\ chosen' = {SelectedLink.id}
  /\ WizardStep /\ UNCHANGED <<wizardVars, offered>>

\* Mutant: the selection stays when the list gets shorter.
RemoveLinkKeepIndex ==
  /\ mode = "ConfirmRemoveLink"
  /\ config' = [config EXCEPT !.links = WithoutIndex(@, links_selected)]
  /\ Edited /\ UNCHANGED <<cursorVars, wizardVars>>

RemoveSelectedLink ==
  /\ mode = "ConfirmRemoveLink"
  /\ config' = [config EXCEPT !.links = WithoutIndex(@, links_selected)]
  /\ links_selected' = SaturatingDec(links_selected)
  /\ Edited /\ UNCHANGED <<peers_selected, wizardVars>>

DeclineRemoval ==
  /\ mode \in {"ConfirmRemoveLink", "ConfirmRemovePeer"}
  /\ mode' = "Normal"
  /\ WizardStep /\ Forget /\ UNCHANGED wizardVars
-----------------------------------------------------------------------------
(***************************************************************************)
(* The Peers tab.                                                          *)
(***************************************************************************)
HasPeer == peers_selected < Len(config.peers)
SelectedPeer == config.peers[peers_selected + 1]

MovePeerSelection(delta) ==
  /\ On("Peers") /\ config.peers # <<>>
  /\ peers_selected' = MoveCursor(peers_selected, delta, Len(config.peers))
  /\ UNCHANGED <<systemVars, mode, tab, configVars, links_selected, wizardVars,
                 pending_service_action, ghostVars>>

\* Mutant: the checklist of the wizard before is not cleared.
BeginAddPeerOldList ==
  /\ On("Peers") /\ config.role = "server" /\ edits < MaxEdits
  /\ peerWizard' = [NoPeer EXCEPT !.links = peerWizard.links]
  /\ mode' = "AddPeerName"
  /\ chosen' = {} /\ offered' = {}
  /\ WizardStep /\ UNCHANGED linkWizard

BeginAddPeer ==
  /\ On("Peers") /\ config.role = "server" /\ edits < MaxEdits
  /\ peerWizard' = NoPeer
  /\ mode' = "AddPeerName"
  /\ chosen' = {} /\ offered' = {}
  /\ WizardStep /\ UNCHANGED linkWizard

BeginEditPeer ==
  /\ On("Peers") /\ config.role = "server" /\ HasPeer /\ edits < MaxEdits
  /\ peerWizard' = [NoPeer EXCEPT !.original = SelectedPeer.name, !.links = SelectedPeer.links]
  /\ mode' = "AddPeerName"
  /\ chosen' = {SelectedPeer.name} /\ offered' = Range(SelectedPeer.links)
  /\ WizardStep /\ UNCHANGED linkWizard

\* Esc in any step, or Enter on an empty name.  The cursor is left where it is
\* and set to 0 before it is read again: here it is 0 at once.
CancelPeerWizard ==
  /\ mode \in PeerModes
  /\ peerWizard' = NoPeer
  /\ mode' = "Normal"
  /\ WizardStep /\ Forget /\ UNCHANGED linkWizard

ConfirmPeerName(name) ==
  /\ mode = "AddPeerName"
  /\ peerWizard' = [peerWizard EXCEPT !.name = name]
  /\ mode' = "AddPeerPublicKey"
  /\ WizardStep /\ UNCHANGED <<linkWizard, chosen, offered>>

\* Enter on an empty key: the wizard is over, its checklist stays behind.
RefuseEmptyKey ==
  /\ mode = "AddPeerPublicKey"
  /\ peerWizard' = [peerWizard EXCEPT !.original = None, !.name = None]
  /\ mode' = "Normal"
  /\ WizardStep /\ Forget /\ UNCHANGED linkWizard

\* Enter on a key that does not decode: the wizard stays where it is.
RefuseKey(key) == mode = "AddPeerPublicKey" /\ ~Decodes(key) /\ UNCHANGED tuiVars

ConfirmPeerPublicKey(key) ==
  /\ mode = "AddPeerPublicKey" /\ Decodes(key)
  /\ peerWizard' = [peerWizard EXCEPT !.public_key = key, !.cursor = 0]
  /\ mode' = "AddPeerLinks"
  /\ WizardStep /\ UNCHANGED <<linkWizard, chosen, offered>>

MovePeerLinksCursor(delta) ==
  /\ mode = "AddPeerLinks" /\ config.links # <<>>
  /\ peerWizard' = [peerWizard EXCEPT !.cursor = MoveCursor(@, delta, Len(config.links))]
  /\ WizardStep /\ UNCHANGED <<mode, linkWizard, chosen, offered>>

\* Space: the first occurrence of the link goes, or the link is added.
TogglePeerLink ==
  /\ mode = "AddPeerLinks" /\ peerWizard.cursor < Len(config.links)
  /\ LET id == config.links[peerWizard.cursor + 1].id
         at == {i \in DOMAIN peerWizard.links : peerWizard.links[i] = id}
     IN  /\ peerWizard' = [peerWizard EXCEPT !.links =
              IF at = {} THEN Append(@, id)
              ELSE WithoutIndex(@, (CHOOSE i \in at : \A j \in at : i <= j) - 1)]
         /\ offered' = offered \cup {id}
  /\ WizardStep /\ UNCHANGED <<mode, linkWizard, chosen>>

ConfirmPeerLinks ==
  /\ mode = "AddPeerLinks"
  /\ LET w    == peerWizard
         kept == Retain(config.peers, {i \in DOMAIN config.peers :
                                         config.peers[i].name \notin {w.original, w.name}})
     IN  /\ config' = [config EXCEPT !.peers = Append(kept,
              [name |-> w.name, public_key |-> w.public_key, links |-> w.links])]
         /\ peers_selected' = Len(kept)
         /\ peerWizard' = NoPeer
  /\ Edited /\ UNCHANGED <<links_selected, linkWizard>>

AskRemovePeer ==
  /\ On("Peers") /\ HasPeer /\ edits < MaxEdits
  /\ mode' = "ConfirmRemovePeer"
  /\ chosen' = {SelectedPeer.name}
  /\ WizardStep /\ UNCHANGED <<wizardVars, offered>>

RemoveSelectedPeer ==
  /\ mode = "ConfirmRemovePeer"
  /\ config' = [config EXCEPT !.peers = WithoutIndex(@, peers_selected)]
  /\ peers_selected' = SaturatingDec(peers_selected)
  /\ Edited /\ UNCHANGED <<links_selected, wizardVars>>
-----------------------------------------------------------------------------
(***************************************************************************)
(* The Service tab, and the service.  Viewing the logs changes nothing.    *)
(***************************************************************************)
\* run_daemon on the file as it is now; the private key may be unreadable and
\* any address taken.
StartDaemon == \E readable \in BOOLEAN :
  daemon' \in IF file = Torn THEN {"refused"} ELSE RunDaemon(file, readable)

ActivateServiceAction(a) ==
  /\ On("Service")
  /\ pending_service_action' = a /\ mode' = "ConfirmServiceAction"
  /\ UNCHANGED <<systemVars, tab, configVars, cursorVars, wizardVars, ghostVars>>

CancelServiceAction ==
  /\ mode = "ConfirmServiceAction"
  /\ pending_service_action' = None /\ mode' = "Normal"
  /\ UNCHANGED <<systemVars, tab, configVars, cursorVars, wizardVars, ghostVars>>

\* What systemctl and tee do to the system; systemd knows the service only
\* once its unit is installed.
ServiceEffect(a) ==
  \/ a = "Start" /\ unit /\ daemon # "running" /\ StartDaemon /\ UNCHANGED unit
  \/ a = "Restart" /\ unit /\ StartDaemon /\ UNCHANGED unit
  \/ a = "Stop" /\ unit /\ daemon' = "stopped" /\ UNCHANGED unit
  \/ a = "InstallUnit" /\ unit' = TRUE /\ UNCHANGED daemon

\* "y": the action runs, or does nothing (no unit, no password, running already).
RunServiceAction ==
  /\ mode = "ConfirmServiceAction"
  /\ ServiceEffect(pending_service_action) \/ UNCHANGED <<daemon, unit>>
  /\ pending_service_action' = None /\ mode' = "Normal"
  /\ UNCHANGED <<file, byTui, touched, tab, configVars, cursorVars, wizardVars, ghostVars>>

\* Restart=on-failure in the unit: a start that failed is tried again.
RetryDaemon ==
  /\ daemon \in {"refused", "no key", "panicked", "failed"}
  /\ StartDaemon
  /\ UNCHANGED <<file, byTui, touched, unit, mode, tab, configVars, cursorVars, wizardVars,
                 pending_service_action, ghostVars>>

\* The operator writes the file with an editor, at any time.
HandEdit(f) == /\ file' = f /\ byTui' = FALSE
               /\ touched' = (mode # "Closed")
               /\ UNCHANGED <<daemon, unit, mode, tab, configVars, cursorVars,
                              wizardVars, pending_service_action, ghostVars>>
-----------------------------------------------------------------------------
LinkKeys == \/ \E d \in {-1, 1} : MoveLinkSelection(d)
            \/ BeginAddLink \/ BeginEditLink
            \/ \E m \in Modes \cup {None} : ConfirmTemplateChoice(m)
            \/ CancelLinkWizard \/ \E id \in Ids : ConfirmLinkId(id)
            \/ \E m \in Modes : ChooseLinkMode(m)
            \/ RefuseAddress \/ \E addr \in Addresses : ConfirmLinkAddress(addr)
            \/ AskRemoveLink \/ RemoveSelectedLink \/ DeclineRemoval

PeerKeys == \/ \E d \in {-1, 1} : MovePeerSelection(d) \/ MovePeerLinksCursor(d)
            \/ BeginAddPeer \/ BeginEditPeer \/ CancelPeerWizard
            \/ \E name \in Names : ConfirmPeerName(name)
            \/ RefuseEmptyKey
            \/ \E key \in KeyTexts : RefuseKey(key) \/ ConfirmPeerPublicKey(key)
            \/ TogglePeerLink \/ ConfirmPeerLinks \/ AskRemovePeer \/ RemoveSelectedPeer

TuiNext == \/ Open \/ Quit \/ \E t \in Tabs : SwitchTab(t)
           \/ Save \/ SaveTorn
           \/ LinkKeys \/ PeerKeys
           \/ \E a \in ServiceMenu : ActivateServiceAction(a)
           \/ CancelServiceAction \/ RunServiceAction
           \/ RetryDaemon \/ \E f \in Rewrites : HandEdit(f)

TuiSpec == TuiInit /\ [][TuiNext]_tuiVars
-----------------------------------------------------------------------------
\* Whatever file the service is started on, hand-written or saved: validate()
\* refuses every one on which an expect() of the daemon would fail.
DaemonNeverPanics == daemon # "panicked"

\* On a file that save_config wrote, and that was not cut short, the daemon can
\* run: neither validation nor an expect() stops it.  The exception is a server
\* whose address of the UDP channel does not parse; validate() does not look at
\* it and run_daemon exits when it cannot bind it, although save() means to
\* "never save something the daemon would refuse to start with".
SavedFileStarts ==
  byTui /\ file # Torn /\ ~(file.role = "server" /\ file.listen_udp \in BadTexts)
    => "running" \in RunDaemon(file, TRUE)

\* While an App says there is nothing to save, memory and file agree, unless a
\* write was cut short or the file was written by hand under the App: a
\* refused save never hides unsaved changes.
CleanMeansSaved == mode # "Closed" /\ ~dirty /\ ~touched => file \in {config, Torn}

\* Opened on a valid file, no sequence of edits makes save_config refuse for
\* another reason than these: a peer still lists a link that was removed or
\* renamed, two peers have one key, no peer is left, or the address of the
\* UDP channel outlived the last UDP link.
EditErrors ==
  {<<"unknown link", n>> : n \in Names} \cup {<<"key reused", n>> : n \in Names}
    \cup {<<"required", "peers">>, <<"forbidden", "listen_udp">>,
          <<"forbidden", "server_udp_addr">>}
OnlyEditErrors == sound => Validate(config) \subseteq EditErrors

\* A peer in the wizard is given no link but those it had when the wizard
\* opened and those checked since, whatever wizards were left before.
GrantsAreOffered == mode \in PeerModes => Range(peerWizard.links) \subseteq offered

\* A change touches what was selected when its wizard or prompt opened, and
\* the entry that has the new id or name; all others survive as they are, and
\* what was under edit does not survive beside its replacement.
Survive(s, t, Named(_), new) ==
  /\ \A x \in Range(s) : Named(x) \notin chosen \cup {new} => x \in Range(t)
  /\ IF new = None THEN Len(t) = Len(s) - 1
     ELSE \A x \in Range(t) : Named(x) \notin chosen \ {new}
OnlyChosenTouched ==
  [][edits' > edits =>
       IF tab = "Links"
       THEN /\ config'.peers = config.peers
            /\ Survive(config.links, config'.links, LAMBDA l : l.id, linkWizard.id)
       ELSE /\ config'.links = config.links
            /\ Survive(config.peers, config'.peers, LAMBDA p : p.name, peerWizard.name)]_tuiVars
=============================================================================
