---------------------------- MODULE SoftwareSources ----------------------------
(***************************************************************************)
(* Where the software of a machine comes from: what a profile may tell root  *)
(* to install (common/profile_rules.py), what a machine's report said of     *)
(* packages (api/discovery.py), and the profiles that are drafted from that  *)
(* (api/ai_blueprint.py and its readings of a container's log).  Pure.  A     *)
(* text is Absent, Odd when the pattern it must match refuses it (or when it *)
(* is of another type), and any other value when it matches; what may be     *)
(* missing altogether is a set of at most one.  A problem is the field it is *)
(* about.                                                                    *)
(***************************************************************************)
EXTENDS Integers, FiniteSets, SequencesExt

CONSTANT AddedRegistries    \* what CONTAINER_REGISTRIES lists in the Admin console

Absent == ""
Odd == "odd"
Wellformed(text) == text # Odd               \* may be missing, but not wrong
Good(text) == text \notin {Absent, Odd}      \* must be there

Wrong(fields, holds) == {f \in fields : ~holds[f]}

----------------------------------------------------------------------------
(* What root may be told to install *)

ARCHIVE_SUFFIXES == {".tar.gz", ".tgz"}
REPO_SUFFIXES == {".repo"}
RELEASE_PACKAGES == {"oracle-epel-release-el9", "epel-release"}

SHARED_REGISTRIES == {"docker.io", "quay.io", "ghcr.io", "registry.gitlab.com"}
FIRST_PARTY == {"mcr.microsoft.com", "docker.elastic.co", "container-registry.oracle.com"}

\* The shipped registries, and each that was added and is a host's name.
REGISTRIES == SHARED_REGISTRIES \cup FIRST_PARTY \cup {h \in AddedRegistries : Good(h)}

\* IMAGE_PATH, a path being its segments.
PathOk(path) == path # <<>> /\ \A i \in DOMAIN path : Good(path[i])

EnvironmentOk(environment) ==
    \A name \in DOMAIN environment : Good(name) /\ Wellformed(environment[name])

\* archive_problems: a unit may be missing only when nothing is to be started.
ArchiveProblems(archive, declaresServices) ==
    Wrong({"url", "dest", "sha256", "user"},
          [url    |-> Good(archive.url) /\ archive.suffix \in ARCHIVE_SUFFIXES,
           dest   |-> Good(archive.dest),
           sha256 |-> Good(archive.sha256),
           user   |-> Wellformed(archive.user)])
    \cup {f \in {"unit"} :
            \/ archive.unit = {} /\ declaresServices
            \/ \E unit \in archive.unit :
                 \/ ~Good(unit.exec_start)
                 \/ ~Wellformed(unit.description)
                 \/ ~EnvironmentOk(unit.environment)}

\* repo_problems: a release package that is on the list and nothing besides, or the
\* definition file of a repository and its signing key.
RepoProblems(repo) ==
    IF repo.release_package # Absent
    THEN Wrong({"release_package", "url"},
               [release_package |-> repo.release_package \in RELEASE_PACKAGES,
                url |-> repo.url = Absent /\ repo.gpg_key = Absent])
    ELSE Wrong({"url", "gpg_key"},
               [url     |-> Good(repo.url) /\ repo.suffix \in REPO_SUFFIXES,
                gpg_key |-> Good(repo.gpg_key)])

\* container_problems: data and no flags; what is pulled is pinned.
ContainerProblems(container) ==
    Wrong({"fields", "registry", "image", "digest", "platform_digest", "tag", "data",
           "data_dir", "data_mount", "command", "environment"},
          [fields          |-> container.unknown = {},
           registry        |-> container.registry \in REGISTRIES,
           image           |-> PathOk(container.path),
           digest          |-> Good(container.digest),
           platform_digest |-> Wellformed(container.platform_digest),
           tag             |-> Wellformed(container.tag),
           data            |-> (container.data_dir = Absent) <=> (container.data_mount = Absent),
           data_dir        |-> Wellformed(container.data_dir),
           data_mount      |-> Wellformed(container.data_mount),
           command         |-> Wellformed(container.command),
           environment     |-> EnvironmentOk(container.environment)])

\* profile_problems.  "families" is a function of the OS families the profile covers.
DeclaresServices(profile) ==
    \E family \in DOMAIN profile.families : profile.families[family].services # {}
HasPackages(profile) ==
    \E family \in DOMAIN profile.families : profile.families[family].packages # {}

\* A pinned container tells its version by its digest; anything else must be asked, and
\* what is pinned by an archive must be compared with something.
VersionProblems(profile) ==
    LET pinned == \E c \in profile.container : Good(c.digest)
    IN  {f \in {"version_command"} :
            ~Good(profile.version_command) /\ ~(pinned /\ profile.version_command = Absent)}
        \cup {f \in {"expects"} :
                /\ Good(profile.version_command)
                /\ profile.archive # {} /\ profile.expects = Absent}

ProfileProblems(profile) ==
    Wrong({"code", "families", "installs", "starts", "names"},
          [code     |-> Good(profile.code),
           families |-> DOMAIN profile.families # {},
           installs |-> HasPackages(profile) \/ profile.archive # {} \/ profile.container # {},
           starts   |-> profile.archive = {} \/ DeclaresServices(profile),
           names    |-> \A family \in DOMAIN profile.families :
                          \A name \in profile.families[family].packages
                                        \cup profile.families[family].services : Good(name)])
    \cup UNION {ArchiveProblems(a, DeclaresServices(profile)) : a \in profile.archive}
    \cup UNION {RepoProblems(r) : r \in profile.repo}
    \cup UNION {ContainerProblems(c) : c \in profile.container}
    \cup VersionProblems(profile)

\* review_profile: what keeps a draft from being built.
Blockers(profile, shippedCodes) ==
    Wrong({"code", "builds_on", "shadows"},
          [code      |-> profile.code # Absent,
           builds_on |-> profile.builds_on # Absent,
           shadows   |-> profile.code \notin shippedCodes])
    \cup ProfileProblems(profile)

----------------------------------------------------------------------------
(* What a machine said of packages.  A report says whether it searched at all, the  *)
(* ports that opened, and of each code what it found: the package it named, those   *)
(* that matched, the repositories it searched (none when it could not tell), and    *)
(* whether the search is the present one, could find anything, and reached EPEL.    *)

EPEL_REPO_IDS == {"epel", "epel-next", "ol9_developer_epel", "ol8_developer_epel",
                  "ol9_developer_epel_modular"}
\* A repository that only has "epel" in its name.
SOUNDS_LIKE_EPEL == EPEL_REPO_IDS \cup {"vendor-epel-mirror"}

\* _reachable: what the list does not say is taken as enabled.
Reachable(repo, enabled) == repo = Absent \/ repo \in EPEL_REPO_IDS \cup enabled

\* _searched_repos
SearchedRepos(report, code) == report.of[code].repos

\* _ports
Ports(numbers) == {p \in numbers : 0 < p /\ p < 65536}

\* The first of two tuples of numbers that are compared as tuples are.
Precedes(a, b) ==
    \E i \in 1..Len(b) :
        /\ \A j \in 1..(i - 1) : j \in DOMAIN a /\ a[j] = b[j]
        /\ i \notin DOMAIN a \/ a[i] < b[i]

\* rank_matches: what is not the software itself is left out; then the version, then the
\* name, then the shortest.  "place" is the name's place in the alphabet.
RankMatches(matches) ==
    LET Flag(b) == IF b THEN 0 ELSE 1
        key == [i \in DOMAIN matches |->
                  <<Flag(matches[i].versioned), Flag(matches[i].startsWithStem),
                    matches[i].length, matches[i].place, i>>]
        usable == {i \in DOMAIN matches : ~matches[i].accessory}
        order == SetToSortSeq(usable, LAMBDA i, j : Precedes(key[i], key[j]))
    IN  [n \in DOMAIN order |-> matches[order[n]]]

\* searched_matches: a name that no package could have is not read.
SearchedMatches(report, code) == SelectSeq(report.of[code].matches, LAMBDA m : Good(m.name))

\* was_searched
WasSearched(report) == report.searched

\* read: the package the machine named for a code, if it named one.
Read(report, code) == {named \in report.of[code].named : Good(named.name)}

\* search_was_sound: that nothing was found means that there is nothing.
SearchWasSound(report, code) ==
    LET said == report.of[code]
    IN  /\ said.current
        /\ said.queryable
        /\ said.epel \in {Absent, "present", "added"}
        /\ said.repos # {}
        /\ said.epel # Absent => said.repos \cap SOUNDS_LIKE_EPEL # {}

\* listening_inside
ListeningInside(report, code) == Ports(report.of[code].inside)

\* finding_for: not known, nothing there, or a package.
Unknown == [outcome |-> "unknown"]
NothingThere == [outcome |-> "nothing"]
Found(package, repo, ports) ==
    [outcome |-> "found", package |-> package, repo |-> repo, ports |-> ports]

FindingFor(report, code) ==
    LET InReach(m) == Reachable(m.repo, SearchedRepos(report, code))
        named == {m \in Read(report, code) : InReach(m)}
        matches == SelectSeq(RankMatches(SearchedMatches(report, code)), InReach)
        best == IF named # {} THEN named ELSE IF matches # <<>> THEN {matches[1]} ELSE {}
    IN  IF ~WasSearched(report) THEN Unknown
        ELSE IF best # {}
             THEN LET m == CHOOSE m \in best : TRUE IN Found(m.name, m.repo, Ports(report.opened))
        ELSE IF SearchWasSound(report, code) THEN NothingThere ELSE Unknown

----------------------------------------------------------------------------
(* The profiles that are drafted *)

Rhel(packages, services) ==
    [x \in {"rhel"} |-> [packages |-> packages, services |-> services]]

\* The fields every draft has.
Draft(code, version_command, families) ==
    [code |-> code, builds_on |-> "oci/service-vm", families |-> families, ports |-> {},
     archive |-> {}, repo |-> {}, container |-> {},
     version_command |-> version_command, expects |-> Absent]

NoRepo == [release_package |-> Absent, url |-> Absent, suffix |-> Absent, gpg_key |-> Absent]

\* profile_from, and draft_from_finding around it: the package is asked for its version,
\* so the command is as good as its name.
ProfileFrom(code, finding) ==
    IF finding.package = Absent THEN {}
    ELSE {[Draft(code, finding.package, Rhel({finding.package}, {finding.package})) EXCEPT
             !.ports = finding.ports,
             !.repo = IF finding.repo \in EPEL_REPO_IDS
                      THEN {[NoRepo EXCEPT !.release_package = "oracle-epel-release-el9"]}
                      ELSE {}]}

\* draft_from_image: the vendor's image, pinned, its data beside it; none when a review
\* would block it.
ContainerOf(code, image) ==
    [unknown |-> {}, registry |-> image.registry, path |-> image.path,
     tag |-> IF image.tag = Absent THEN "latest" ELSE image.tag,
     digest |-> image.digest, platform_digest |-> image.platform_digest,
     data_dir |-> code, data_mount |-> code,
     command |-> image.command, environment |-> image.environment]
DraftFromImage(code, image) ==
    LET profile == [Draft(code, Absent, Rhel({}, {code})) EXCEPT
                      !.container = {ContainerOf(code, image)}, !.ports = image.listening]
    IN  {p \in {profile} : image.digest # Absent /\ Blockers(p, {}) = {}}

\* ARCHIVE_KNOWLEDGE and VENDOR_REPOS: what somebody looked up.
KeycloakArchive ==
    [url |-> "keycloak", suffix |-> ".tar.gz", dest |-> "/opt/keycloak", sha256 |-> "4f3c",
     user |-> "keycloak",
     unit |-> {[exec_start |-> "kc.sh", description |-> "Keycloak", environment |-> <<>>]}]
ARCHIVE_KNOWLEDGE ==
    [keycloak |-> [archive |-> KeycloakArchive, expects |-> "26", version_command |-> "kc.sh",
                   packages |-> {"java-21-openjdk-headless"}, services |-> {"keycloak"}]]
VENDOR_REPOS ==
    LET Of(host, suffix, package, service, expects) ==
            [repo |-> [NoRepo EXCEPT !.url = host, !.suffix = suffix, !.gpg_key = host],
             package |-> package, service |-> service, expects |-> expects]
    IN  [vault   |-> Of("hashicorp", ".repo", "vault", "vault", Absent),
         consul  |-> Of("hashicorp", ".repo", "consul", "consul", Absent),
         mongodb |-> Of("mongodb", "/", "mongodb-org", "mongod", "8")]

\* _guessed_profile: a package that may be called as the technology is.
GuessedProfile(code, package) ==
    Draft(code, code, Rhel({IF package = Absent THEN code ELSE package}, {}))

\* _repo_profile
RepoProfile(code) ==
    LET known == VENDOR_REPOS[code]
    IN  [Draft(code, known.service, Rhel({known.package}, {known.service})) EXCEPT
           !.repo = {known.repo}, !.expects = known.expects]

ArchiveProfile(code) ==
    LET known == ARCHIVE_KNOWLEDGE[code]
    IN  [Draft(code, known.version_command, Rhel(known.packages, known.services)) EXCEPT
           !.archive = {known.archive}, !.expects = known.expects]

\* profile_for_method: nothing where the method has nothing to go by.
ProfileForMethod(code, method, package) ==
    CASE method = "package" -> {GuessedProfile(code, package)}
      [] method = "repo" -> {RepoProfile(c) : c \in {code} \cap DOMAIN VENDOR_REPOS}
      [] method = "archive" -> {ArchiveProfile(c) : c \in {code} \cap DOMAIN ARCHIVE_KNOWLEDGE}
      [] OTHER -> {}

\* draft_profile: the method that was asked for, or what is known, or what a model that
\* can be asked answers ("modelled"), or a guess.
DraftProfile(code, method, package, modelled) ==
    LET asked == ProfileForMethod(code, method, package)
    IN  IF asked # {} THEN CHOOSE p \in asked : TRUE
        ELSE IF code \in DOMAIN VENDOR_REPOS \ DOMAIN ARCHIVE_KNOWLEDGE THEN RepoProfile(code)
        ELSE IF code \in DOMAIN ARCHIVE_KNOWLEDGE THEN ArchiveProfile(code)
        ELSE IF modelled # {}
             THEN [(CHOOSE p \in modelled : TRUE) EXCEPT !.code = code]
             ELSE GuessedProfile(code, Absent)

----------------------------------------------------------------------------
(* What a container's log asks for *)

\* container_env.demanded: names no image means are left out, each is kept once.
NOT_A_VARIABLE == {"GENERATED_ROOT_PASSWORD", "NOT_SPECIFIED"}
Demanded(said) == {name \in said : name \notin NOT_A_VARIABLE}

\* What a name asks for: a password the machine may make up, none at all, a contract, a
\* secret.
RANDOM == {"MYSQL_RANDOM_ROOT_PASSWORD"}
EMPTY == {"MYSQL_ALLOW_EMPTY_PASSWORD"}
LICENCE == {"ACCEPT_EULA"}
SECRET == {"MYSQL_ROOT_PASSWORD", "SA_PASSWORD"} \cup RANDOM \cup EMPTY

\* container_env.answer: what the container is given, and what only a person may give.
AnswerEnvironment(names, licenceAccepted) ==
    LET demanded == {n \in names : Good(n)}
        random == demanded \cap RANDOM
        empty == demanded \cap EMPTY
        secrets == IF random # {} THEN {} ELSE (demanded \cap SECRET) \ (RANDOM \cup EMPTY)
        contracts == demanded \cap LICENCE
        unaccepted == IF licenceAccepted THEN {} ELSE contracts
        chosen == IF random = {} THEN {} ELSE {CHOOSE n \in random : TRUE}
        given == chosen \cup (contracts \ unaccepted)
        person == secrets \cup unaccepted
        onlyEmpty == person = {} /\ given = {} /\ empty # {}
    IN  [environment |-> [n \in given |-> "yes"],
         needsAPerson |-> IF ~onlyEmpty THEN person
                          ELSE IF demanded # empty THEN demanded \ empty ELSE empty]

\* container_command.offered: the commands of a usage screen; without one, none.
OfferedCommands(log) == IF log.usage THEN log.commands ELSE <<>>

\* container_command.answer: the only command there is, with the data directory when it
\* takes one; between several a person chooses.
AnswerCommand(names, takesArgs, dataMount) ==
    LET read == SelectSeq(names, Good)
        refused == takesArgs /\ dataMount = Odd
    IN  [command |-> IF Len(read) = 1 /\ ~refused THEN read[1] ELSE Absent,
         needsAPerson |-> IF Len(read) > 1 \/ (Len(read) = 1 /\ refused) THEN Range(read)
                          ELSE {}]
=============================================================================
