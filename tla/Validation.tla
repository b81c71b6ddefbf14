------------------------------ MODULE Validation ------------------------------
(***************************************************************************)
(* What a submission is refused for: api/validation.py, the fields of each   *)
(* kind of request against the database.  Pure.  A request's fields are a    *)
(* record, "" where nothing was entered; "db" is what is on record of other  *)
(* requests, backups and technologies, and what the catalogue last said of   *)
(* networks and names.  An error is the field it is shown at.                *)
(***************************************************************************)
EXTENDS Integers, FiniteSets

----------------------------------------------------------------------------
(* Vocabulary *)

CREATE_LIKE == {"create", "clone", "sandbox", "temporary", "dr"}
COMPONENT_TYPES == CREATE_LIKE \cup {"add", "resize"}
SOURCE_ACTING == {"decommission", "refresh", "restore", "reduce"}
REQUEST_TYPES == COMPONENT_TYPES \cup SOURCE_ACTING \cup {"dns", "platform-service"}

ENV_TIERS == {"Development", "QMG", "Pre-Test", "Test", "UAT", "Production"}
NONPROD_TIERS == ENV_TIERS \ {"Production"}
LEGACY_ENV_TIERS == [dev |-> "Development", test |-> "Test", sit |-> "Pre-Test",
                     uat |-> "UAT", preprod |-> "UAT", prod |-> "Production"]

\* normalise_tier: the tier, or what an old name became, or nothing.
NormaliseTier(t) ==
    IF t \in ENV_TIERS THEN t
    ELSE IF t \in DOMAIN LEGACY_ENV_TIERS THEN LEGACY_ENV_TIERS[t] ELSE ""

\* TIER_ORDER of a tier in lower case: it has the old names, so of the new ones only
\* those that are still spelt alike are known to it, and the others are lowest.
TierRank(t) ==
    CASE t \in {"test", "Test"} -> 1
      [] t = "sit" -> 2
      [] t \in {"uat", "UAT"} -> 3
      [] t = "preprod" -> 4
      [] t \in {"prod", "dr"} -> 5
      [] OTHER -> 0

SIZES == {"small", "medium", "large", "xlarge"}
SizeRank == [small |-> 0, medium |-> 1, large |-> 2, xlarge |-> 3]

\* Fields that must be one of what is on record, or of a fixed list.
Unchosen(data, fields, allowed) == {f \in fields : data[f] \notin allowed[f]}

----------------------------------------------------------------------------
(* The request another one acts on *)

Exists(db, ref) == ref \in DOMAIN db.requests

Provisioned(db, ref) == Exists(db, ref) /\ db.requests[ref].status = "provisioned"

ProvisionedOr(field, db, ref) == {f \in {field} : ~Provisioned(db, ref)}

Named(data) == {c.technology : c \in data.components} \ {""}

\* _live_technologies: those whose kind has an active row; of a kind nobody knows, all
\* while any row is active.
LiveTechnologies(r) ==
    {t \in DOMAIN r.stack :
        IF r.stack[t].kind # "" THEN r.stack[t].kind \in r.active ELSE r.active # {}}

\* _validate_decommission_fields: without any row the status decides, else what is live.
DecommissionErrors(data, db) ==
    IF ~Exists(db, data.source) THEN {"source_reference"}
    ELSE LET r == db.requests[data.source]
         IN  IF ~r.recorded /\ r.status # "provisioned" THEN {"source_reference"}
             ELSE {f \in {"components"} :
                     \/ Named(data) = {}
                     \/ ~Named(data) \subseteq DOMAIN r.stack
                     \/ r.recorded /\ ~Named(data) \subseteq LiveTechnologies(r)}

\* _validate_refresh_fields: into a provisioned environment that is not production, from
\* another provisioned one that is not lower.
RefreshErrors(data, db) ==
    LET into == {f \in {"source_reference"} :
                   \/ ~Provisioned(db, data.source)
                   \/ NormaliseTier(db.requests[data.source].tier) \notin NONPROD_TIERS}
        lower == TierRank(db.requests[data.from].tier) < TierRank(db.requests[data.source].tier)
    IN  into \cup {f \in {"refresh_from_reference"} :
                     \/ data.from = data.source \/ ~Provisioned(db, data.from)
                     \/ into = {} /\ lower}

\* _validate_restore_fields: a backup of that environment.
RestoreErrors(data, db) ==
    ProvisionedOr("source_reference", db, data.source)
    \cup {f \in {"restore_backup_id"} :
            \/ data.backup \notin DOMAIN db.backups
            \/ data.source # "" /\ db.backups[data.backup] # data.source}

\* _validate_reduce_fields: smaller sizes of what it runs.
ReduceErrors(data, db) ==
    IF ~Provisioned(db, data.source) THEN {"source_reference"}
    ELSE LET stack == db.requests[data.source].stack
             chosen == {c \in data.components : c.technology # ""}
         IN  {f \in {"components"} :
                \/ chosen = {}
                \/ \E c \in chosen :
                      \/ c.technology \notin DOMAIN stack
                      \/ c.size \notin SIZES
                      \/ SizeRank[c.size] >= SizeRank[stack[c.technology].size]}

\* _validate_dns_fields: a name, a kind of record, and for an alias what it stands for.
DnsErrors(data, db, allowed) ==
    ProvisionedOr("source_reference", db, data.source)
    \cup Unchosen(data, {"dns_name", "dns_type"}, allowed)
    \cup {f \in {"dns_value"} : data.dns_type = "CNAME" /\ data.dns_value = ""}

\* _validate_not_already_in_flight: another request of the same kind on the same source
\* that has not ended, about the same technologies where the kind names any.
InFlight == {"submitted", "approved", "planned", "in-progress", "decommissioning"}
InFlightErrors(data, db) ==
    {f \in {"source_reference"} :
        /\ data.type \in SOURCE_ACTING /\ data.source # ""
        /\ \E ref \in DOMAIN db.requests \ {data.reference} :
              LET other == db.requests[ref]
              IN  /\ other.source = data.source /\ other.type = data.type
                  /\ other.status \in InFlight
                  /\ data.type \in {"decommission", "reduce"} =>
                        Named(data) \cap DOMAIN other.stack # {}}

----------------------------------------------------------------------------
(* A new environment *)

\* _validate_tier_has_a_network: of a technology that is built in a network per tier, a
\* tier that has one; one without any is refused whatever the tier.
NetworkErrors(data, db) ==
    LET tier == NormaliseTier(data.tier)
        mapped == {t \in Named(data) : db.networks[t].perTier}
    IN  {f \in {"components"} : \E t \in mapped : db.networks[t].tiers = {}}
        \cup {f \in {"environment_tier"} :
                tier # "" /\ \E t \in mapped : /\ db.networks[t].tiers # {}
                                               /\ tier \notin db.networks[t].tiers}

\* _validate_create_fields: a project that is active, a name, a classification, a tier.
CreateErrors(data, db, allowed) ==
    Unchosen(data, {"project_code", "environment_name", "data_classification"}, allowed)
    \cup NetworkErrors(data, db)
    \cup {f \in {"environment_tier"} : NormaliseTier(data.tier) = ""}

\* _validate_clone_fields: of a provisioned one, under another name.
CloneErrors(data, db, allowed) ==
    CreateErrors(data, db, allowed)
    \cup ProvisionedOr("source_reference", db, data.source)
    \cup {f \in {"environment_name"} :
            /\ Provisioned(db, data.source) /\ data.environment_name # ""
            /\ data.environment_name = db.requests[data.source].name}

\* _validate_dr_fields: there is no tier for it, so it is always refused.
DrErrors(data, db, allowed) ==
    CreateErrors(data, db, allowed)
    \cup {"environment_tier"}
    \cup ProvisionedOr("source_reference", db, data.source)

\* _validate_shortlived_fields: not in production; a temporary one ends, and later than
\* today ("expires" is how many days it has, 0 without a date).
ShortlivedErrors(data, db, allowed) ==
    CreateErrors(data, db, allowed)
    \cup {f \in {"environment_tier"} : NormaliseTier(data.tier) = "Production"}
    \cup {f \in {"expires_on"} : data.type = "temporary" /\ data.expires <= 0}

\* _validate_platform_service_fields: one capability, and what it is for.
PlatformServiceErrors(data, db) ==
    IF \/ Cardinality(data.components) # 1
       \/ ~\E c \in data.components : c.technology \in db.capabilities
    THEN {"components"}
    ELSE {f \in {"business_justification"} : data.business_justification = ""}

\* _validate_metadata and _validate_advanced: why, how urgent, how critical, by when, and
\* of the options only known ones; "none" and nothing are no choice.
MetadataErrors(data, allowed) ==
    Unchosen(data, {"business_justification", "priority", "business_criticality",
                    "required_delivery_date"}, allowed)
    \cup {f \in DOMAIN data.advanced :
            /\ data.advanced[f] \notin {"", "none"}
            /\ f \notin DOMAIN allowed.advanced \/ data.advanced[f] \notin allowed.advanced[f]}

\* name_budget and _validate_environment_name_fits: a machine is named after its
\* environment, its request and its kind, and some kinds are held to a length.
NameBudget(limit, suffix, reference) == limit - reference - suffix - 2
NameFitsErrors(data, db) ==
    {f \in {"environment_name"} :
        \E t \in Named(data) :
            /\ db.names[t].limit # 0
            /\ data.length > NameBudget(db.names[t].limit, db.names[t].suffix, 7)}

\* _validate_components: of each a technology that is offered, where it is to run, and a
\* size, and what its options are refused for (ComponentErrors of ComponentForm).
ComponentsErrors(data, db) ==
    LET filled == {c \in data.components : c.technology # "" \/ c.size # ""}
        Refused(c) ==
            {<<c, f>> : f \in {g \in {"technology"} :
                \/ c.technology \notin DOMAIN db.technologies
                \/ db.technologies[c.technology].eol
                \/ /\ data.deployment_target \in {"onprem", "azure", "oci", "aws", "gcp"}
                   /\ data.deployment_target \notin db.technologies[c.technology].targets}}
            \cup {<<c, f>> : f \in {g \in {"size"} : c.size \notin SIZES}}
            \cup {<<c, f>> : f \in {g \in c.refused : c.technology # ""}}
    IN  IF filled = {} THEN {"components"} ELSE UNION {Refused(c) : c \in filled}

----------------------------------------------------------------------------
\* validate_submission.
Errors(data, db, allowed) ==
    IF data.type \notin REQUEST_TYPES THEN {"request_type"}
    ELSE (IF data.type \in SOURCE_ACTING \cup {"dns"} THEN {}
          ELSE Unchosen(data, {"cost_centre_code", "subsidiary"}, allowed))
         \cup (CASE data.type = "create" -> CreateErrors(data, db, allowed)
                 [] data.type = "clone" -> CloneErrors(data, db, allowed)
                 [] data.type \in {"sandbox", "temporary"} -> ShortlivedErrors(data, db, allowed)
                 [] data.type = "dr" -> DrErrors(data, db, allowed)
                 [] data.type = "decommission" -> DecommissionErrors(data, db)
                 [] data.type = "refresh" -> RefreshErrors(data, db)
                 [] data.type = "restore" -> RestoreErrors(data, db)
                 [] data.type = "reduce" -> ReduceErrors(data, db)
                 [] data.type = "dns" -> DnsErrors(data, db, allowed)
                 [] data.type = "platform-service" -> PlatformServiceErrors(data, db)
                 [] OTHER -> Unchosen(data, {"target_environment"}, allowed))
         \cup (IF data.type \in COMPONENT_TYPES
               THEN Unchosen(data, {"deployment_target"}, allowed) \cup ComponentsErrors(data, db)
                    \cup MetadataErrors(data, allowed) \cup NameFitsErrors(data, db)
               ELSE {})
         \cup InFlightErrors(data, db)

Accepted(data, db, allowed) == Errors(data, db, allowed) = {}
=============================================================================
