--------------------------- MODULE ServerSession ---------------------------
(***************************************************************************)
(* One session of the gpgsm Assuan server, src/sm/server.c.  The client   *)
(* sends one command at a time; each handler runs to completion before    *)
(* the next line is read, so each handler is one step.  The state is the  *)
(* session's part of ctrl and server_local: the INPUT and OUTPUT          *)
(* descriptors libassuan keeps for the session, the MESSAGE stream, the   *)
(* recipient and signer lists, the audit context and the options.         *)
(*                                                                         *)
(* Descriptors are abstracted to ids: every INPUT, OUTPUT or MESSAGE      *)
(* command hands over a new one (0 is GNUPG_INVALID_FD).  SERVED counts,  *)
(* per descriptor, the operations that read their data from it or wrote   *)
(* their result to it.  Whatever can fail in a handler without the        *)
(* session state deciding it (es_fdopen, xtrymalloc, audit_new, the key   *)
(* lookups, an inquiry) is a nondeterministic choice.                     *)
(***************************************************************************)
EXTENDS Integers, FiniteSets

CONSTANTS
    Keys,           \* the user IDs a client can name in RECIPIENT / SIGNER
    EncTo,          \* the encrypt-to keys of default_recplist
    MaxFds,         \* bound on the descriptors handed over in one session
    Values,         \* option values: integers, or Empty
    Empty,          \* an empty value ("")
    DefaultInclude  \* include_certs as gpgsm_init_default_ctrl sets it

ASSUME Empty \notin Int /\ EncTo \subseteq Keys /\ MaxFds \in Nat

Fds == 1..MaxFds
NoFd == 0

VARIABLES
    inFd, outFd,    \* the descriptors of the last INPUT / OUTPUT, or NoFd
    msg,            \* the descriptor of server_local->message_fp, or NoFd
    nextFd,         \* the last descriptor id handed over
    served,         \* [Fds -> Nat]: operations that consumed a descriptor
    recips,         \* server_local->recplist
    signers,        \* server_local->signerlist
    audit,          \* ctrl->audit is set
    enableAudit,    \* server_local->enable_audit_log
    includeCerts,   \* ctrl->include_certs
    listToOutput,   \* server_local->list_to_output
    noEncryptTo,    \* server_local->no_encrypt_to
    alwaysTrust,    \* ctrl->always_trust
    noProtection,   \* ctrl->no_protection
    done            \* the accept loop has ended and the session is released

vars == <<inFd, outFd, msg, nextFd, served, recips, signers, audit, enableAudit,
          includeCerts, listToOutput, noEncryptTo, alwaysTrust, noProtection, done>>

opts == <<enableAudit, includeCerts, listToOutput, noEncryptTo, alwaysTrust,
          noProtection>>

-----------------------------------------------------------------------------
(* atoi of an option value, with the default the handler uses for an empty value.     *)
IntOf(v, dflt) == IF v = Empty THEN dflt ELSE v

(* start_audit_session: the possible outcomes, as [ok, audit].  With the  *)
(* audit log enabled audit_new may fail; then the session has no audit.   *)
StartAudit ==
    IF enableAudit
    THEN {[ok |-> TRUE, audit |-> TRUE], [ok |-> FALSE, audit |-> FALSE]}
    ELSE {[ok |-> TRUE, audit |-> FALSE]}

(* close_message_fp, assuan_close_input_fd and assuan_close_output_fd.    *)
CloseAll == msg' = NoFd /\ inFd' = NoFd /\ outFd' = NoFd

(* The operation ran on the descriptors DS (NoFd among them is ignored).  *)
Use(ds) == served' = [d \in Fds |-> IF d \in ds THEN served[d] + 1 ELSE served[d]]

Live == ~done

-----------------------------------------------------------------------------
Init ==
    /\ inFd = NoFd /\ outFd = NoFd /\ msg = NoFd /\ nextFd = 0
    /\ served = [d \in Fds |-> 0]
    /\ recips = {} /\ signers = {} /\ audit = FALSE
    /\ enableAudit = FALSE /\ includeCerts = DefaultInclude
    /\ listToOutput = FALSE /\ noEncryptTo = FALSE
    /\ alwaysTrust = FALSE /\ noProtection = FALSE
    /\ done = FALSE

(* Mutant: include-certs stores the value without the default for an empty value.     *)
IncludeNoDefault(v) == v

(* The value option include-certs=V stores.                                *)
IncludeValue(v) == IntOf(v, -1)

(* option_handler for the keys that change modelled state.  The check of  *)
(* include-certs tests the value already stored, not the new one; when it *)
(* fails the option is rejected and nothing changes.  always-trust is     *)
(* taken as gpgsm was started without --always-trust and                  *)
(* --require-compliance.  Keys whose effect lies outside the state        *)
(* modelled here (putenv, display, lc-*, list-mode, with-*, offline, ...) *)
(* change nothing below.                                                  *)
Option ==
    /\ Live
    /\ \E v \in Values :
         \/ /\ includeCerts >= -2
            /\ includeCerts' = IncludeValue(v)
            /\ UNCHANGED <<enableAudit, listToOutput, noEncryptTo, alwaysTrust, noProtection>>
         \/ /\ listToOutput' = (IntOf(v, 0) # 0)
            /\ UNCHANGED <<enableAudit, includeCerts, noEncryptTo, alwaysTrust, noProtection>>
         \/ /\ enableAudit' = (IntOf(v, 0) # 0)
            /\ UNCHANGED <<includeCerts, listToOutput, noEncryptTo, alwaysTrust, noProtection>>
         \/ /\ noEncryptTo' = TRUE
            /\ UNCHANGED <<enableAudit, includeCerts, listToOutput, alwaysTrust, noProtection>>
         \/ /\ alwaysTrust' = (IntOf(v, 1) # 0)
            /\ UNCHANGED <<enableAudit, includeCerts, listToOutput, noEncryptTo, noProtection>>
         \/ /\ noProtection' = (IntOf(v, 0) # 0)
            /\ UNCHANGED <<enableAudit, includeCerts, listToOutput, noEncryptTo, alwaysTrust>>
    /\ UNCHANGED <<inFd, outFd, msg, nextFd, served, recips, signers, audit, done>>

(* reset_notify.                                                           *)
Reset ==
    /\ Live
    /\ recips' = {} /\ signers' = {}
    /\ alwaysTrust' = FALSE /\ noProtection' = FALSE
    /\ CloseAll
    /\ UNCHANGED <<nextFd, served, audit, enableAudit, includeCerts, listToOutput,
                   noEncryptTo, done>>

(* INPUT FD / OUTPUT FD: libassuan stores the new descriptor and calls    *)
(* input_notify / output_notify, which only set the encoding flags.       *)
Input ==
    /\ Live /\ nextFd < MaxFds
    /\ nextFd' = nextFd + 1 /\ inFd' = nextFd + 1
    /\ UNCHANGED <<outFd, msg, served, recips, signers, audit, done>> /\ UNCHANGED opts

Output ==
    /\ Live /\ nextFd < MaxFds
    /\ nextFd' = nextFd + 1 /\ outFd' = nextFd + 1
    /\ UNCHANGED <<inFd, msg, served, recips, signers, audit, done>> /\ UNCHANGED opts

(* cmd_message: parse the descriptor and open a stream on it; the new     *)
(* stream replaces message_fp (the old one is not closed).                *)
Message ==
    /\ Live /\ nextFd < MaxFds
    /\ nextFd' = nextFd + 1 /\ msg' = nextFd + 1
    /\ UNCHANGED <<inFd, outFd, served, recips, signers, audit, done>> /\ UNCHANGED opts

(* cmd_recipient: start an audit session when there is none, then add    *)
(* the key (gpgsm_add_to_certlist may reject it).                         *)
Recipient ==
    /\ Live
    /\ \E k \in Keys, added \in BOOLEAN, au \in (IF audit THEN {[ok |-> TRUE, audit |-> TRUE]}
                                                   ELSE StartAudit) :
         /\ audit' = au.audit
         /\ recips' = IF au.ok /\ added THEN recips \cup {k} ELSE recips
    /\ UNCHANGED <<inFd, outFd, msg, nextFd, served, signers, done>> /\ UNCHANGED opts

(* cmd_signer.                                                             *)
Signer ==
    /\ Live
    /\ \E k \in Keys, added \in BOOLEAN :
         signers' = IF added THEN signers \cup {k} ELSE signers
    /\ UNCHANGED <<inFd, outFd, msg, nextFd, served, recips, audit, done>> /\ UNCHANGED opts

(* The session state an operation handler leaves alone.                    *)
Keep == UNCHANGED <<nextFd, recips, signers, done>> /\ UNCHANGED opts

(* cmd_encrypt: both descriptors must be set and both streams open (on a  *)
(* failed es_fdopen the handler returns at once).  The encrypt-to keys of *)
(* default_recplist are added unless no-encrypt-to was given (an add may  *)
(* fail), an audit session is started when there is none, and             *)
(* gpgsm_encrypt runs when all that succeeded.  Whatever the outcome the  *)
(* recipient list is released, always_trust reset and message, input and  *)
(* output closed.                                                         *)
Encrypt ==
    /\ Live /\ inFd # NoFd /\ outFd # NoFd
    /\ \E opened, added \in BOOLEAN,
          au \in (IF audit THEN {[ok |-> TRUE, audit |-> TRUE]} ELSE StartAudit) :
         LET addOk == noEncryptTo \/ EncTo = {} \/ added
         IN  IF ~opened THEN UNCHANGED vars
             ELSE /\ audit' = (IF addOk THEN au.audit ELSE audit)
                  /\ Use(IF addOk /\ au.ok THEN {inFd, outFd} ELSE {})
                  /\ recips' = {} /\ alwaysTrust' = FALSE
                  /\ CloseAll
                  /\ UNCHANGED <<nextFd, signers, done, enableAudit, includeCerts,
                                 listToOutput, noEncryptTo, noProtection>>

(* cmd_decrypt: as ENCRYPT, with a fresh audit session for every run.     *)
Decrypt ==
    /\ Live /\ inFd # NoFd /\ outFd # NoFd
    /\ \E opened \in BOOLEAN, au \in StartAudit :
         IF ~opened THEN UNCHANGED vars
         ELSE /\ audit' = au.audit
              /\ Use(IF au.ok THEN {inFd, outFd} ELSE {})
              /\ CloseAll /\ Keep

(* cmd_verify: the input must be set, the output is optional; the         *)
(* signature is checked against the MESSAGE stream when one was given.    *)
Verify ==
    /\ Live /\ inFd # NoFd
    /\ \E opened \in BOOLEAN, au \in StartAudit :
         IF ~opened THEN UNCHANGED vars
         ELSE /\ audit' = au.audit
              /\ Use(IF au.ok THEN {inFd, outFd, msg} ELSE {})
              /\ CloseAll /\ Keep

(* cmd_sign: as DECRYPT, signing with the signer list, which it keeps.    *)
Sign ==
    /\ Live /\ inFd # NoFd /\ outFd # NoFd
    /\ \E opened \in BOOLEAN, au \in StartAudit :
         IF ~opened THEN UNCHANGED vars
         ELSE /\ audit' = au.audit
              /\ Use(IF au.ok THEN {inFd, outFd} ELSE {})
              /\ CloseAll /\ Keep

(* cmd_import: reads the input; no audit session.                         *)
Import ==
    /\ Live /\ inFd # NoFd
    /\ \E opened \in BOOLEAN :
         IF ~opened THEN UNCHANGED vars
         ELSE Use({inFd}) /\ CloseAll /\ Keep /\ UNCHANGED audit

(* cmd_export: NKEYS patterns; with --secret exactly one is required.     *)
(* With --data the result goes out as data lines, else to the OUTPUT      *)
(* descriptor.  A failed allocation or stream setup returns at once.     *)
Export ==
    /\ Live
    /\ \E useData, secret, ok \in BOOLEAN, nkeys \in 0..2 :
         IF \/ ~ok \/ (secret /\ nkeys # 1) \/ (~useData /\ outFd = NoFd)
         THEN UNCHANGED vars
         ELSE /\ Use(IF useData THEN {} ELSE {outFd})
              /\ CloseAll /\ Keep /\ UNCHANGED audit

(* cmd_delkeys: delete by pattern; touches no descriptor but closes them. *)
Delkeys ==
    /\ Live
    /\ \E ok \in BOOLEAN :
         IF ~ok THEN UNCHANGED vars
         ELSE CloseAll /\ Keep /\ UNCHANGED <<audit, served>>

(* Mutant: the listing leaves the OUTPUT descriptor set.                 *)
ListKeysKeepOutput ==
    /\ Live
    /\ \E ok \in BOOLEAN :
         IF ~ok \/ (listToOutput /\ outFd = NoFd) THEN UNCHANGED vars
         ELSE IF listToOutput
              THEN Use({outFd}) /\ UNCHANGED <<inFd, outFd, msg, audit>> /\ Keep
              ELSE UNCHANGED vars

(* do_listkeys (LISTKEYS, DUMPKEYS, LISTSECRETKEYS, DUMPSECRETKEYS): after *)
(* the pattern list and the --issuer-der inquiry (either may fail), list  *)
(* to the OUTPUT descriptor when list-to-output is set, closing that      *)
(* descriptor afterwards, else as data lines.  Input and message stay.   *)
ListKeys ==
    /\ Live
    /\ \E ok \in BOOLEAN :
         IF ~ok \/ (listToOutput /\ outFd = NoFd) THEN UNCHANGED vars
         ELSE IF listToOutput
              THEN Use({outFd}) /\ outFd' = NoFd
                   /\ UNCHANGED <<inFd, msg, audit>> /\ Keep
              ELSE UNCHANGED vars

(* cmd_genkey: reads the parameters from the input and writes the request *)
(* to the output, then closes both; the message stream stays.             *)
Genkey ==
    /\ Live /\ inFd # NoFd /\ outFd # NoFd
    /\ \E opened \in BOOLEAN :
         IF ~opened THEN UNCHANGED vars
         ELSE /\ Use({inFd, outFd}) /\ inFd' = NoFd /\ outFd' = NoFd
              /\ UNCHANGED <<msg, audit>> /\ Keep

(* cmd_getauditlog: needs an audit session; prints it as data lines or to *)
(* the OUTPUT descriptor, which it then closes.                           *)
GetAuditLog ==
    /\ Live /\ audit
    /\ \E useData, ok \in BOOLEAN :
         IF ~ok \/ (~useData /\ outFd = NoFd) THEN UNCHANGED vars
         ELSE IF useData THEN UNCHANGED vars
         ELSE Use({outFd}) /\ outFd' = NoFd /\ UNCHANGED <<inFd, msg, audit>> /\ Keep

(* The end of gpgsm_server: the accept loop is over; the lists and the    *)
(* audit context are released.  message_fp is not closed.                *)
EndSession ==
    /\ Live
    /\ done' = TRUE /\ recips' = {} /\ signers' = {} /\ audit' = FALSE
    /\ UNCHANGED <<inFd, outFd, msg, nextFd, served>> /\ UNCHANGED opts

Next ==
    \/ Option \/ Reset \/ Input \/ Output \/ Message \/ Recipient \/ Signer
    \/ Encrypt \/ Decrypt \/ Verify \/ Sign \/ Import \/ Export \/ Delkeys
    \/ ListKeys \/ Genkey \/ GetAuditLog \/ EndSession

Spec == Init /\ [][Next]_vars

-----------------------------------------------------------------------------
TypeOK ==
    /\ {inFd, outFd, msg} \subseteq {NoFd} \cup Fds /\ nextFd \in 0..MaxFds
    /\ served \in [Fds -> Nat]
    /\ recips \subseteq Keys /\ signers \subseteq Keys
    /\ {audit, enableAudit, listToOutput, noEncryptTo, alwaysTrust, noProtection, done}
         \subseteq BOOLEAN
    /\ includeCerts \in Int

(* Every descriptor the client hands over serves at most one operation:   *)
(* each handler that reads its input from, writes its output to or checks *)
(* against a descriptor closes it, so a second ENCRYPT, LISTKEYS or       *)
(* GETAUDITLOG never writes into a sink an earlier one already used, nor *)
(* does a VERIFY read a MESSAGE stream an earlier VERIFY consumed.       *)
DescriptorUsedOnce == \A d \in Fds : served[d] <= 1

(* Violated: include-certs is only accepted with a value gpgsm knows      *)
(* (-2 all but the root, -1 all, 0 none, N the first N); option_handler   *)
(* is meant to reject anything below -2.                                  *)
IncludeCertsValid == includeCerts >= -2


=============================================================================
