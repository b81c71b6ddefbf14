------------------------------ MODULE FirstBoot ------------------------------
(***************************************************************************)
(* How a request comes to be believed built.  Each machine runs the script  *)
(* it was given at first boot: it installs, starts and opens, noting what   *)
(* failed, and then looks at itself, step after step, while the software    *)
(* goes on starting, crashing and being started again.  It uploads one      *)
(* report under a name made of the request and the kind of resource; the    *)
(* portal polls until every kind has one, and judges what it finds.  Which  *)
(* kinds are asked to report is a matter of settings: none as shipped.      *)
(***************************************************************************)
EXTENDS Integers, FiniteSets

CONSTANTS Machines,
          KindSets,     \* assignments of a kind to each machine
          ReportSets,   \* kinds that may be asked: none without OCI_BOOT_REPORT_PAR_URL,
                        \* not those whose blueprint is exempt
          Part,         \* machine -> the component it carries
          How,          \* component -> "package", "archive" or "container"
          Promised,     \* components whose version the recipe promises
          Ported,       \* components whose recipe opens ports
          Declaring,    \* containers whose image declares ports
          Suffixing,    \* kinds whose machines write a report each (kafka)
          MaxAttempts   \* bound on the applies of the request

ASSUME FirstBootConstants ==
    /\ \A K \in KindSets : DOMAIN K = Machines /\ \A m \in Machines : K[m] \notin Machines
    /\ \A m \in Machines : Part[m] \in DOMAIN How
    /\ Declaring \subseteq {c \in DOMAIN How : How[c] = "container"}
    /\ MaxAttempts \in Nat \ {0}

VARIABLES kind,        \* the kind of resource each machine is
          reporting,   \* the kinds whose machines are asked to report
          step,        \* how far each machine's first boot has come
          fit,         \* what is installed on it: nothing, something else, what was asked
          run,         \* its software: stopped, up, or up and serving
          noted,       \* machines whose log or report, so far, holds a problem
          object,      \* the reports in the bucket, by name
          request,     \* Request.status, as far as this module tells it apart
          attempts,    \* applies made
          told,        \* history: what the machine that is there now has uploaded
          saw,         \* history: what its own report saw: software there, serving
          replaced     \* history: machines rebuilt after a former one had reported

bootVars == <<kind, reporting, step, fit, run, noted, object, request, attempts, told, saw,
              replaced>>
Inside == <<fit, run, noted>>
Outside == <<kind, reporting, object, request, attempts, told, saw, replaced>>

Steps == {"none", "install", "start", "look", "watch", "finish", "over"}
Kinds == UNION {{K[m] : m \in Machines} : K \in KindSets}
Names == Kinds \cup Machines

\* object_name, and the suffix a cluster's template gives each of its nodes.
ReportName(m) == IF kind[m] \in Suffixing THEN m ELSE kind[m]

BootTypeOK ==
    /\ kind \in KindSets /\ reporting \in ReportSets /\ step \in [Machines -> Steps]
    /\ fit \in [Machines -> {"absent", "wrong", "right"}]
    /\ run \in [Machines -> {"stopped", "up", "serving"}]
    /\ noted \subseteq Machines
    /\ object \in [Names -> {"none", "ok", "bad"}]
    /\ request \in {"applying", "apply-failed", "verifying", "provisioned", "verify-failed"}
    /\ attempts \in 1 .. MaxAttempts
    /\ told \in [Machines -> {"none", "ok", "bad"}]
    /\ saw \in [Machines -> SUBSET {"there", "serving"}] /\ replaced \subseteq Machines

BootInit ==
    /\ kind \in KindSets /\ reporting \in ReportSets
    /\ step = [m \in Machines |-> "none"]
    /\ fit = [m \in Machines |-> "absent"] /\ run = [m \in Machines |-> "stopped"]
    /\ noted = {}
    /\ object = [n \in Names |-> "none"]
    /\ request = "applying" /\ attempts = 1
    /\ told = [m \in Machines |-> "none"] /\ saw = [m \in Machines |-> {}]
    /\ replaced = {}

----------------------------------------------------------------------------
(* The script a machine runs *)

Notes(m, problem) == noted' = IF problem THEN noted \cup {m} ELSE noted
Sees(m, what) == saw' = [saw EXCEPT ![m] = @ \cup what]
Serving(m) == IF run[m] = "serving" THEN {"serving"} ELSE {}
There(m) == IF fit[m] = "absent" THEN {} ELSE {"there"}

\* Nothing asks the machine again.
Silent(m) ==
    /\ step' = [step EXCEPT ![m] = "over"]
    /\ fit' = [fit EXCEPT ![m] = "absent"] /\ run' = [run EXCEPT ![m] = "stopped"]
    /\ noted' = noted \ {m}

\* Repositories, packages, archives and images; what cannot be had is said in the log,
\* what is another version is not noticed here.
Install(m) ==
    /\ step[m] = "install" /\ step' = [step EXCEPT ![m] = "start"]
    /\ \E got \in {"absent", "wrong", "right"} :
          fit' = [fit EXCEPT ![m] = got] /\ Notes(m, got = "absent")
    /\ UNCHANGED <<run, Outside>>

\* Services, then ports: what cannot be started or opened is said in the log.  The script
\* of a machine that is not asked to report ends here.
StartServices(m) ==
    /\ step[m] = "start"
    /\ \/ /\ kind[m] \in reporting /\ step' = [step EXCEPT ![m] = "look"]
          /\ \E up, opened \in BOOLEAN :
                /\ up => fit[m] # "absent"
                /\ run' = [run EXCEPT ![m] = IF up THEN "up" ELSE "stopped"]
                /\ Notes(m, ~up \/ ~opened)
          /\ UNCHANGED fit
       \/ kind[m] \notin reporting /\ Silent(m)
    /\ UNCHANGED Outside

\* Software comes up, goes down, and is restarted by systemd.
SoftwareMoves(m) ==
    /\ step[m] \in {"look", "watch", "finish"} /\ fit[m] # "absent"
    /\ \/ run[m] = "up" /\ run' = [run EXCEPT ![m] = "serving"]
       \/ run[m] # "stopped" /\ run' = [run EXCEPT ![m] = "stopped"]
       \/ run[m] = "stopped" /\ How[Part[m]] # "package" /\ run' = [run EXCEPT ![m] = "up"]
    /\ UNCHANGED <<step, fit, noted, Outside>>

\* The report begins with what is installed: the packages, or the image the container
\* runs and whether it runs.  An archive is looked for where it was unpacked.
Look(m) ==
    /\ step[m] = "look" /\ step' = [step EXCEPT ![m] = "watch"]
    /\ Notes(m, \/ fit[m] = "absent"
                \/ How[Part[m]] = "container" /\ (fit[m] = "wrong" \/ run[m] = "stopped"))
    /\ UNCHANGED <<fit, run, Outside>>

\* Mutant: the wait for the container's ports is over when one minute is.
WatchInsideNot(m) ==
    /\ step[m] = "watch" /\ step' = [step EXCEPT ![m] = "finish"]
    /\ Sees(m, IF Part[m] \in Declaring THEN Serving(m) ELSE {})
    /\ UNCHANGED <<Inside, kind, reporting, object, request, attempts, told, replaced>>

\* The wait until what the image declares listens inside it, or for as many passes as
\* the recipe is given; nothing of it then is a problem (_ports_never_served).
WatchInside(m) ==
    /\ step[m] = "watch" /\ step' = [step EXCEPT ![m] = "finish"]
    /\ Notes(m, Part[m] \in Declaring /\ run[m] # "serving")
    /\ Sees(m, IF Part[m] \in Declaring THEN Serving(m) ELSE {})
    /\ UNCHANGED <<fit, run, kind, reporting, object, request, attempts, told, replaced>>

\* A unit that systemd is about to start again is neither inactive nor failed; a
\* container's published port is answered for while the container is up.
ServiceDown(m) == run[m] = "stopped" /\ How[Part[m]] = "package"
NothingListens(m) ==
    Part[m] \in Ported /\ IF How[Part[m]] = "container" THEN run[m] = "stopped"
                          ELSE run[m] # "serving"
VersionWrong(m) ==
    How[Part[m]] # "container" /\ Part[m] \in Promised /\ fit[m] # "right"

\* Versions, services, ports, the firewall (a reload that failed left it closed) and the
\* log; then the one upload, which may fail, and which overwrites what another machine of
\* that name has said.
Report(m) ==
    /\ step[m] = "finish" /\ Silent(m)
    /\ \E closed \in BOOLEAN :
       LET bad == \/ m \in noted
                  \/ VersionWrong(m) \/ ServiceDown(m) \/ NothingListens(m)
                  \/ Part[m] \in Ported /\ closed
           says == IF bad THEN "bad" ELSE "ok"
       IN  \/ /\ object' = [object EXCEPT ![ReportName(m)] = says]
              /\ told' = [told EXCEPT ![m] = says] /\ Sees(m, There(m) \cup Serving(m))
           \/ UNCHANGED <<object, told>> /\ saw' = [saw EXCEPT ![m] = {}]
    /\ UNCHANGED <<kind, reporting, request, attempts, replaced>>

Dies(m) ==
    /\ step[m] \notin {"none", "over"} /\ Silent(m)
    /\ saw' = [saw EXCEPT ![m] = {}]
    /\ UNCHANGED <<kind, reporting, object, request, attempts, told, replaced>>

----------------------------------------------------------------------------
(* The apply, and the portal that waits *)

\* Terraform creates a machine, or one for another image in the place of one that is
\* there; its report's name is the same.
BuildMachine(m) ==
    /\ request = "applying"
    /\ step[m] = "none" \/ (attempts > 1 /\ step[m] = "over")
    /\ step' = [step EXCEPT ![m] = "install"]
    /\ replaced' = IF step[m] = "none" THEN replaced ELSE replaced \cup {m}
    /\ told' = [told EXCEPT ![m] = "none"] /\ saw' = [saw EXCEPT ![m] = {}]
    /\ UNCHANGED <<Inside, kind, reporting, object, request, attempts>>

ApplyReturns ==
    /\ request = "applying"
    /\ \/ request' = "verifying" /\ \A m \in Machines : step[m] # "none"
       \/ request' = "apply-failed"
    /\ UNCHANGED <<kind, reporting, step, Inside, object, attempts, told, saw, replaced>>

\* The Approve button plans what failed anew, and the sweep applies it.
RetryApply ==
    /\ request = "apply-failed" /\ attempts < MaxAttempts                \* bound
    /\ request' = "applying" /\ attempts' = attempts + 1
    /\ UNCHANGED <<kind, reporting, step, Inside, object, told, saw, replaced>>

\* reports_for: every object whose name begins with the request and the kind.
ReportsFor(k) == {object[ReportName(m)] : m \in {n \in Machines : kind[n] = k}} \ {"none"}

Settled(readable) ==
    \A m \in Machines : kind[m] \in readable => ReportsFor(kind[m]) # {}

AllOk(readable) ==
    \A m \in Machines : kind[m] \in reporting =>
        kind[m] \in readable /\ ReportsFor(kind[m]) = {"ok"}

\* _await_boot_reports: /verify until every kind that is asked, and can be read, has a
\* report; then what they say decides, and a bucket that cannot be read is no evidence.
\* Where none is asked there is nothing to wait for, and nothing to disbelieve.
VerifyEnds ==
    /\ request = "verifying"
    /\ \E readable \in SUBSET reporting :
          /\ Settled(readable)
          /\ request' = IF AllOk(readable) THEN "provisioned" ELSE "verify-failed"
    /\ UNCHANGED <<kind, reporting, step, Inside, object, attempts, told, saw, replaced>>

\* Mutant: a status of its own for a verification that was given up.
VerifyGivesUpOddly ==
    /\ request = "verifying" /\ request' = "verify-timeout"
    /\ UNCHANGED <<kind, reporting, step, Inside, object, attempts, told, saw, replaced>>

VerifyGivesUp ==
    /\ request = "verifying" /\ request' = "verify-failed"
    /\ UNCHANGED <<kind, reporting, step, Inside, object, attempts, told, saw, replaced>>

FirstBoot(m) ==
    Install(m) \/ StartServices(m) \/ Look(m) \/ WatchInside(m) \/ Report(m)

BootNext ==
    \/ \E m \in Machines : BuildMachine(m) \/ FirstBoot(m) \/ SoftwareMoves(m) \/ Dies(m)
    \/ ApplyReturns \/ RetryApply \/ VerifyEnds \/ VerifyGivesUp

BootSpec == BootInit /\ [][BootNext]_bootVars
----------------------------------------------------------------------------
\* What the machine there now has said, and what its software was when it said so.
Evidence(m) ==
    /\ told[m] = "ok" /\ "there" \in saw[m]
    /\ Part[m] \in Declaring \/ (Part[m] \in Ported /\ How[Part[m]] # "container")
          => "serving" \in saw[m]

\* A request is provisioned on evidence for each kind of machine it is made of that is
\* asked to report: one of the kind found its software there and, where its ports are
\* known, serving -- unless a machine of the kind replaced another, whose report may still
\* be the one that is read.  Of a kind that is not asked it says nothing
\* (api/main.py:5698, .env.example:409).
ProvisionedOnEvidence ==
    request = "provisioned" =>
        \A m \in Machines : kind[m] \in reporting =>
            \E n \in Machines : kind[n] = kind[m] /\ (n \in replaced \/ Evidence(n))
=============================================================================
