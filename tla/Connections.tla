----------------------------- MODULE Connections -----------------------------
(***************************************************************************)
(* What has to be connected before a run can publish anything: the gateway *)
(* and the repository (orchestrator/github.py), which the doctor is to     *)
(* prove usable before a build spends its agents, and the key of the Kiro  *)
(* role (orchestrator/kiro_config.py), which lies in the Token Vault with  *)
(* a note of it beside the console.                                        *)
(*                                                                         *)
(* Requests run in threads of the console's server, and the attendee turns *)
(* the gateway, the App's permissions and the settings meanwhile.          *)
(***************************************************************************)
EXTENDS Integers, FiniteSets

CONSTANTS
    Repos,      \* repositories the attendee may name
    EnvRepo,    \* GITHUB_REPO, "" when it is not set
    Doctors,    \* invocations of the doctor
    Keys,       \* Kiro API keys
    Savers,     \* requests that may change the key at the same time
    MaxTurns,   \* bound on what the attendee changes
    MaxSaves,   \* bound on the changes of the key
    VaultFails  \* TRUE: a call to the vault may fail, a request may be cut short

ASSUME ConnectionsAssumption ==
    /\ EnvRepo \in Repos \cup {""} /\ "" \notin Repos
    /\ MaxTurns \in Nat /\ MaxSaves \in Nat /\ VaultFails \in BOOLEAN

(* The permissions of the GitHub App that count; metadata is readable wherever
   it is installed. *)
Permissions == {"read", "contents", "issues", "pulls"}
(* The ways an attendee fills in the App's form. *)
Grants == {{}, {"read"}, {"read", "contents"}, Permissions \ {"contents"}, Permissions}
Gateways == {"absent", "down", "stale", "up"}
NoConfig == ""

VARIABLES
    saved,      \* repo of .runs/github.local.json
    gateway,    \* the gateway deployed here, and what it answers
    grant,      \* permissions of the App on each repository
    probed,     \* repositories with the branch workshop/doctor
    doctor,     \* what each invocation is doing
    turned,     \* changes of the attendee so far
    vault,      \* key in the Token Vault
    note,       \* key the sidecar tells of
    saver,      \* what each request is doing to the key
    saves,      \* changes of the key begun
    blurred     \* changes of the key overlapped, or one was cut short

github == <<saved, gateway, grant, probed, doctor, turned>>
kiro == <<vault, note, saver, saves, blurred>>
connectionVars == <<github, kiro>>

NoKey == "none"
Well == [step |-> "none", repo |-> "", lacks |-> FALSE, steady |-> FALSE]
NoSave == [step |-> "none", key |-> NoKey]

ConnectionsTypeOK ==
    /\ saved \in Repos \cup {""} /\ gateway \in Gateways
    /\ grant \in [Repos -> Grants] /\ probed \subseteq Repos
    /\ doctor \in [Doctors ->
         [step : {"none", "listed", "read", "created", "ready", "notReady"},
          repo : Repos \cup {""}, lacks : BOOLEAN, steady : BOOLEAN]]
    /\ turned \in 0..MaxTurns
    /\ vault \in Keys \cup {NoKey} /\ note \in Keys \cup {NoKey}
    /\ saver \in [Savers ->
         [step : {"none", "vault", "note"}, key : Keys \cup {NoKey}]]
    /\ saves \in 0..MaxSaves /\ blurred \in BOOLEAN

(* The attendee may have got anywhere with the set-up. *)
ConnectionsInit ==
    /\ saved \in Repos \cup {""} /\ gateway \in Gateways
    /\ grant \in [Repos -> Grants]
    /\ probed = {} /\ doctor = [d \in Doctors |-> Well] /\ turned = 0
    /\ vault = NoKey /\ note = NoKey /\ saver = [s \in Savers |-> NoSave]
    /\ saves = 0 /\ blurred = FALSE
-----------------------------------------------------------------------------
(* The gateway and the repository *)

(* _gateway_config: the environment before the settings; the gateway's own URL
   is discovered from the state its deployment leaves. *)
Config ==
    IF gateway = "absent" THEN NoConfig ELSE IF EnvRepo # "" THEN EnvRepo ELSE saved

(* The attendee saves or clears the settings, deploys the gateway, or changes
   what the App may do; nothing of what a doctor saw holds any more. *)
Turns ==
    /\ turned < MaxTurns /\ turned' = turned + 1
    /\ \/ saved' \in (Repos \cup {""}) \ {saved} /\ UNCHANGED <<gateway, grant>>
       \/ gateway' \in Gateways \ {gateway} /\ UNCHANGED <<saved, grant>>
       \/ /\ \E r \in Repos, p \in Grants :
               p # grant[r] /\ grant' = [grant EXCEPT ![r] = p]
          /\ UNCHANGED <<saved, gateway>>
    /\ doctor' = [d \in Doctors |-> [doctor[d] EXCEPT !.steady = FALSE]]
    /\ UNCHANGED <<probed, kiro>>

Answers == gateway \in {"stale", "up"}

(* A signed tools/list and the repository's default branch. *)
Connected == Config # NoConfig /\ Answers /\ "read" \in grant[Config]

Reports(d, step) == doctor' = [doctor EXCEPT ![d].step = step]

(* The doctor resolves the configuration and lists the gateway's tools; one that
   lacks some of them cannot be ready, and the rest is checked all the same. *)
DoctorLists(d) ==
    /\ doctor[d].step \in {"none", "ready", "notReady"}
    /\ doctor' = [doctor EXCEPT ![d] =
         [step |-> IF Config # NoConfig /\ Answers THEN "listed" ELSE "notReady",
          repo |-> Config, lacks |-> gateway = "stale", steady |-> TRUE]]
    /\ UNCHANGED <<saved, gateway, grant, probed, turned, kiro>>

DoctorReads(d) ==
    /\ doctor[d].step = "listed"
    /\ Reports(d, IF Answers /\ "read" \in grant[doctor[d].repo] THEN "read" ELSE "notReady")
    /\ UNCHANGED <<saved, gateway, grant, probed, turned, kiro>>

MayPush(r) == Answers /\ "contents" \in grant[r]

(* Mutant: a branch that is there already fails the write check. *)
CreatesOnce(d) ==
    LET r == doctor[d].repo
    IN  /\ doctor[d].step = "read"
        /\ IF MayPush(r) /\ r \notin probed
           THEN Reports(d, "created") /\ probed' = probed \cup {r}
           ELSE Reports(d, "notReady") /\ UNCHANGED probed
        /\ UNCHANGED <<saved, gateway, grant, turned, kiro>>

(* GitHub answers 403 before it looks whether the branch is there (422, which
   the doctor passes over). *)
DoctorCreates(d) ==
    LET r == doctor[d].repo
    IN  /\ doctor[d].step = "read"
        /\ IF MayPush(r)
           THEN Reports(d, "created") /\ probed' = probed \cup {r}
           ELSE Reports(d, "notReady") /\ UNCHANGED probed
        /\ UNCHANGED <<saved, gateway, grant, turned, kiro>>

(* reset_branch makes or moves the branch: this invocation has written. *)
DoctorResets(d) ==
    LET r == doctor[d].repo
    IN  /\ doctor[d].step = "created"
        /\ IF MayPush(r)
           THEN /\ Reports(d, IF doctor[d].lacks THEN "notReady" ELSE "ready")
                /\ probed' = probed \cup {r}
           ELSE Reports(d, "notReady") /\ UNCHANGED probed
        /\ UNCHANGED <<saved, gateway, grant, turned, kiro>>
-----------------------------------------------------------------------------
(* The key of the Kiro role *)

Changing == {s \in Savers : saver[s].step # "none"}

(* save_api_key, or clear_api_key when the key is NoKey. *)
KeyBegins(s) ==
    /\ saver[s].step = "none" /\ saves < MaxSaves /\ saves' = saves + 1
    /\ \E k \in Keys \cup {NoKey} :
         saver' = [saver EXCEPT ![s] = [step |-> "vault", key |-> k]]
    /\ blurred' = (blurred \/ Changing # {})
    /\ UNCHANGED <<vault, note, github>>

(* Mutant: a save goes on to the note although the vault failed. *)
GoesOn(k) == TRUE

(* A save that fails in the vault ends there, whether or not the vault took the
   key before; a clear goes on. *)
GoesOnFailed(k) == k = NoKey

KeyVault(s) ==
    /\ saver[s].step = "vault"
    /\ \/ vault' = saver[s].key /\ saver' = [saver EXCEPT ![s].step = "note"]
       \/ /\ VaultFails /\ vault' \in {vault, saver[s].key}
          /\ saver' = [saver EXCEPT ![s] =
               IF GoesOnFailed(@.key) THEN [@ EXCEPT !.step = "note"] ELSE NoSave]
    /\ UNCHANGED <<note, saves, blurred, github>>

(* The sidecar that tells of a key is written, or removed with it. *)
KeyNote(s) ==
    /\ saver[s].step = "note" /\ note' = saver[s].key
    /\ saver' = [saver EXCEPT ![s] = NoSave]
    /\ UNCHANGED <<vault, saves, blurred, github>>

KeyCut(s) ==
    /\ VaultFails /\ saver[s].step # "none"
    /\ saver' = [saver EXCEPT ![s] = NoSave] /\ blurred' = TRUE
    /\ UNCHANGED <<vault, note, saves, github>>

GitHubNext ==
    \/ Turns
    \/ \E d \in Doctors :
         DoctorLists(d) \/ DoctorReads(d) \/ DoctorCreates(d) \/ DoctorResets(d)

KiroNext ==
    \E s \in Savers : KeyBegins(s) \/ KeyVault(s) \/ KeyNote(s) \/ KeyCut(s)

ConnectionsNext == GitHubNext \/ KiroNext

ConnectionsSpec == ConnectionsInit /\ [][ConnectionsNext]_connectionVars
-----------------------------------------------------------------------------
(* Properties *)

(* An invocation of the doctor that ends, with nothing changed meanwhile, is
   right both ways about whether the App can push to the repository a run would
   publish to, also when earlier or other invocations left the branch there. *)
DoctorIsRight ==
    \A d \in Doctors : doctor[d].steady =>
        /\ doctor[d].step = "ready" =>
             gateway = "up" /\ MayPush(Config) /\ Connected
        /\ doctor[d].step = "notReady" =>
             \/ Config = NoConfig \/ gateway # "up" \/ ~Connected \/ ~MayPush(Config)

(* A ready doctor proves the whole path of a publication: the push, the issue
   comments and labels, and the pull request. *)
DoctorProvesPath ==
    \A d \in Doctors :
        doctor[d].steady /\ doctor[d].step = "ready" => grant[Config] = Permissions

(* Unless changes overlapped or one was cut short, a console that says the Kiro
   role has its key has one in the vault, whichever calls to the vault failed. *)
ConnectedHasKey ==
    ~blurred /\ (\A s \in Savers : saver[s].step # "note") =>
        (note # NoKey => vault # NoKey)
=============================================================================
