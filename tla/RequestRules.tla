----------------------------- MODULE RequestRules -----------------------------
(***************************************************************************)
(* What Validate of each request message accepts: the rules of its fields, *)
(* one operator per message.  A field's value is abstracted to whether it  *)
(* was given, its size (the number itself, the length of a text in         *)
(* characters or bytes, the items of a list) and whether it has the shape  *)
(* the rule asks for (a pattern, distinct positive items, a known name).   *)
(* Fields without a rule, nested messages without one, and the wording of  *)
(* the errors are left out.                                                *)
(***************************************************************************)
EXTENDS Naturals

CONSTANT Unbounded  \* larger than every size in play: no rule bounds the field

ASSUME UnboundedAssumption == Unbounded \in Nat

\* The fields of both records.
f ++ g == [x \in DOMAIN f \cup DOMAIN g |-> IF x \in DOMAIN f THEN f[x] ELSE g[x]]

Rule(unit, low, high) ==
    [unit |-> unit, min |-> low, max |-> high, shaped |-> FALSE, optional |-> FALSE]

Runes(low, high) == Rule("runes", low, high)   \* utf8.RuneCountInString

Bytes(low, high) == Rule("bytes", low, high)   \* len

Items(low) == Rule("items", low, Unbounded)

Number(low, high) == Rule("number", low, high)

Id == Number(1, Unbounded)                     \* > 0

Shaped(rule) == [rule EXCEPT !.shaped = TRUE]

Optional(rule) == [rule EXCEPT !.optional = TRUE]

\* A key: 1 to 64 characters of its pattern.
Key == Shaped(Runes(1, 64))

Name == Runes(1, 64)

Description == Runes(0, 255)

Bug_AcceptsField(rule, value) ==
    \/ ~value.given
    \/ rule.min <= value.size
       /\ value.size <= rule.max + 1
       /\ (rule.shaped => value.shaped)

\* One rule of Validate; a field that is not given is only skipped when optional.
AcceptsField(rule, value) ==
    \/ rule.optional /\ ~value.given
    \/ /\ rule.min <= value.size
       /\ value.size <= rule.max
       /\ rule.shaped => value.shaped

-----------------------------------------------------------------------------
(* Nested messages.                                                        *)

PaginationRequest == [page |-> Optional(Id), limit |-> Optional(Number(1, 100))]

SelectOption ==
    [option_label |-> Name, option_value |-> Key, option_description |-> Description]

-----------------------------------------------------------------------------
(* Setup, sessions, accounts and roles.                                    *)

CreateInitialAdminRequest ==
    [username |-> Runes(1, 128), display_name |-> Runes(1, 128), password |-> Bytes(12, 1024)]

LoginRequest == [username |-> Runes(1, 128), password |-> Runes(1, 1024)]

CreateUserRequest ==
    [username |-> Runes(1, 128), display_name |-> Runes(1, 128), password |-> Runes(12, 1024)]

UpdateUserRequest == [user_id |-> Id, display_name |-> Runes(1, 128)]

UpdateUserPasswordRequest == [user_id |-> Id, password |-> Runes(12, 1024)]

UpdateUserStatusRequest == [user_id |-> Id]

RoleIDRequest == [role_id |-> Id]

CreateRoleRequest == [key |-> Key, name |-> Name, description |-> Description]

UpdateRoleRequest == [role_id |-> Id, name |-> Name, description |-> Description]

UpdateRolePermissionsRequest == [role_id |-> Id, permission_ids |-> Shaped(Items(0))]

-----------------------------------------------------------------------------
(* Environments, projects and their keys.                                  *)

EnvironmentIDRequest == [environment_id |-> Id]

ListEnvironmentsRequest == [project_id |-> Optional(Id)]

CreateEnvironmentRequest ==
    [project_id |-> Id, key |-> Key, name |-> Name, description |-> Description]

UpdateEnvironmentRequest ==
    [project_id |-> Id, environment_id |-> Id, name |-> Name, description |-> Description]

UpdateEnvironmentUserRolesRequest ==
    [environment_id |-> Id, user_id |-> Id, role_ids |-> Shaped(Items(0))]

ProjectIDRequest == [id |-> Id, environment_id |-> Optional(Id)]

CreateProjectRequest == [key |-> Key, name |-> Name, description |-> Description]

UpdateProjectRequest == [id |-> Id, name |-> Name, description |-> Description]

ListProjectRequest == [keyword |-> Runes(0, 64), environment_id |-> Optional(Id)]

ProjectApiKeyScopeRequest == [environment_id |-> Id, project_id |-> Id]

ProjectApiKeyIDRequest == [environment_id |-> Id, project_id |-> Id, key_id |-> Id]

CreateProjectApiKeyRequest == [environment_id |-> Id, project_id |-> Id, name |-> Name]

-----------------------------------------------------------------------------
(* Configurations and their schema.                                        *)

ConfigIDRequest == [environment_id |-> Id, id |-> Id]

CreateConfigRequest ==
    [environment_id |-> Id, project_id |-> Id, key |-> Key, description |-> Description]

UpdateConfigRequest == [environment_id |-> Id, id |-> Id, description |-> Description]

UpdateConfigValueRequest == [environment_id |-> Id, id |-> Id]

ListConfigRequest ==
    [environment_id |-> Id, project_id |-> Optional(Id),
     key |-> Optional(Runes(0, 255)), project_key |-> Optional(Runes(0, 64))]

StructureIDRequest == [environment_id |-> Id, id |-> Id]

CreateStructureRequest ==
    [environment_id |-> Id, config_id |-> Id, key |-> Key, name |-> Name, description |-> Description]

UpdateStructureRequest ==
    [environment_id |-> Id, id |-> Id, key |-> Key, name |-> Name, description |-> Description,
     fields |-> Items(1)]

ListStructureRequest ==
    [environment_id |-> Id, config_id |-> Id, project_id |-> Id, ignore_dependency_id |-> Optional(Id)]

EnumIDRequest == [environment_id |-> Id, id |-> Id]

CreateEnumRequest ==
    [environment_id |-> Id, config_id |-> Id, key |-> Key, name |-> Name, description |-> Description,
     values |-> Items(1)] ++ SelectOption

UpdateEnumRequest ==
    [environment_id |-> Id, id |-> Id, key |-> Key, name |-> Name, description |-> Description,
     values |-> Items(1)] ++ SelectOption

ListEnumRequest == [environment_id |-> Id, config_id |-> Id, project_id |-> Id]

-----------------------------------------------------------------------------
(* Snapshots, publication, transfer, assets, runtime.                      *)

SnapshotIDRequest == [environment_id |-> Id, id |-> Id]

ConfigSnapshotRequest == [environment_id |-> Id, config_id |-> Id]

CreateSnapshotRequest ==
    [environment_id |-> Id, config_id |-> Id, project_id |-> Id, description |-> Runes(2, 255)]

LoadSnapshotRequest == [environment_id |-> Id, id |-> Id, config_id |-> Id]

ListSnapshotRequest ==
    [environment_id |-> Id, config_id |-> Id, project_id |-> Id] ++ PaginationRequest

PublishSnapshotRequest == [environment_id |-> Id, snapshot_id |-> Id]

ExportSnapshotRequest == [source_environment_id |-> Id, snapshot_id |-> Id]

ImportSnapshotRequest ==
    [target_environment_id |-> Id, source_environment_id |-> Id, source_snapshot_id |-> Id,
     target_project_id |-> Id, target_config_id |-> Optional(Id), description |-> Runes(2, 255),
     idempotency_key |-> Runes(16, 128), conflict_strategy |-> Shaped(Number(1, Unbounded))]

PresignAssetRequest ==
    [environment_id |-> Id, project_id |-> Id, filename |-> Runes(1, 255),
     content_type |-> Runes(1, 255), size |-> Id]

CompleteAssetRequest ==
    [environment_id |-> Id, project_id |-> Id, object_key |-> Runes(1, 1024)]

ConfigRequest == [project |-> Runes(1, 64), key |-> Runes(1, 64)]

\* Requests without a message of their own (emptypb.Empty).
Empty == <<>>
=============================================================================
