------------------------------- MODULE Services -------------------------------
(***************************************************************************)
(* The operations of the API: for each service the routes its HTTP server  *)
(* registers, in order, and the columns its handlers write the fields of a *)
(* request to.  A segment of a path that is a field of the request message *)
(* is a variable of the path.                                              *)
(***************************************************************************)
EXTENDS RequestRules, Sequences

Route(operation, method, path, message) ==
    [operation |-> operation, method |-> method, path |-> path, message |-> message]

Environment == <<"admin", "environments", "environment_id">>

-----------------------------------------------------------------------------
(* RegisterXServiceHTTPServer and the handlers it registers.               *)

AuthService == <<
    Route("Login", "POST", <<"auth", "login">>, LoginRequest),
    Route("Refresh", "POST", <<"auth", "refresh">>, Empty),
    Route("Logout", "POST", <<"auth", "logout">>, Empty),
    Route("Me", "GET", <<"auth", "me">>, Empty)>>

SetupService == <<
    Route("GetSetupStatus", "GET", <<"setup", "status">>, Empty),
    Route("CreateInitialAdmin", "POST", <<"setup", "admin">>, CreateInitialAdminRequest)>>

EnvironmentService ==
    LET Project == <<"admin", "projects", "project_id", "environments">> IN <<
    Route("ListEnvironments", "GET", <<"admin", "environments">>, ListEnvironmentsRequest),
    Route("CreateEnvironment", "POST", Project, CreateEnvironmentRequest),
    Route("UpdateEnvironment", "PUT", Project \o <<"environment_id">>, UpdateEnvironmentRequest),
    Route("MyPermissions", "GET", Environment \o <<"my-permissions">>, EnvironmentIDRequest),
    Route("ListEnvironmentUsers", "GET", Environment \o <<"users">>, EnvironmentIDRequest),
    Route("UpdateEnvironmentUserRoles", "PUT", Environment \o <<"users", "user_id", "roles">>,
          UpdateEnvironmentUserRolesRequest)>>

UserService ==
    LET User == <<"admin", "users", "user_id">> IN <<
    Route("ListUsers", "GET", <<"admin", "users">>, Empty),
    Route("CreateUser", "POST", <<"admin", "users">>, CreateUserRequest),
    Route("UpdateUser", "PUT", User, UpdateUserRequest),
    Route("UpdateUserPassword", "PUT", User \o <<"password">>, UpdateUserPasswordRequest),
    Route("UpdateUserStatus", "PUT", User \o <<"status">>, UpdateUserStatusRequest)>>

RoleService ==
    LET Role == <<"admin", "roles", "role_id">> IN <<
    Route("ListRoles", "GET", <<"admin", "roles">>, Empty),
    Route("CreateRole", "POST", <<"admin", "roles">>, CreateRoleRequest),
    Route("UpdateRole", "PUT", Role, UpdateRoleRequest),
    Route("DeleteRole", "DELETE", Role, RoleIDRequest),
    Route("ListPermissions", "GET", <<"admin", "permissions">>, Empty),
    Route("UpdateRolePermissions", "PUT", Role \o <<"permissions">>, UpdateRolePermissionsRequest)>>

ProjectService == <<
    Route("CreateProject", "POST", <<"admin", "projects">>, CreateProjectRequest),
    Route("UpdateProject", "PUT", <<"admin", "projects", "id">>, UpdateProjectRequest),
    Route("ListProject", "GET", <<"admin", "projects">>, ListProjectRequest),
    Route("ProjectDetail", "GET", <<"admin", "projects", "id">>, ProjectIDRequest)>>

ConfigService == <<
    Route("CreateConfig", "POST", Environment \o <<"config", "create">>, CreateConfigRequest),
    Route("UpdateConfig", "POST", Environment \o <<"config", "update">>, UpdateConfigRequest),
    Route("UpdateConfigValue", "POST", Environment \o <<"config", "updateValue">>, UpdateConfigValueRequest),
    Route("ListConfig", "POST", Environment \o <<"config", "list">>, ListConfigRequest),
    Route("DeleteConfig", "POST", Environment \o <<"config", "delete">>, ConfigIDRequest),
    Route("ConfigDetail", "POST", Environment \o <<"config", "detail">>, ConfigIDRequest)>>

StructureService == <<
    Route("CreateStructure", "POST", Environment \o <<"structure", "create">>, CreateStructureRequest),
    Route("UpdateStructure", "POST", Environment \o <<"structure", "update">>, UpdateStructureRequest),
    Route("ListStructure", "POST", Environment \o <<"structure", "list">>, ListStructureRequest),
    Route("DeleteStructure", "POST", Environment \o <<"structure", "delete">>, StructureIDRequest)>>

EnumService == <<
    Route("CreateEnum", "POST", Environment \o <<"enum", "create">>, CreateEnumRequest),
    Route("UpdateEnum", "POST", Environment \o <<"enum", "update">>, UpdateEnumRequest),
    Route("ListEnum", "POST", Environment \o <<"enum", "list">>, ListEnumRequest),
    Route("DeleteEnum", "POST", Environment \o <<"enum", "delete">>, EnumIDRequest)>>

SnapshotService == <<
    Route("CreateSnapshot", "POST", Environment \o <<"snapshot", "create">>, CreateSnapshotRequest),
    Route("PreviewCreatingSnapshot", "POST", Environment \o <<"snapshot", "previewCreating">>, ConfigSnapshotRequest),
    Route("DeleteSnapshot", "POST", Environment \o <<"snapshot", "delete">>, SnapshotIDRequest),
    Route("GetSnapshot", "POST", Environment \o <<"snapshot", "detail">>, SnapshotIDRequest),
    Route("LoadSnapshot", "POST", Environment \o <<"snapshot", "load">>, LoadSnapshotRequest),
    Route("CurrentSnapshot", "POST", Environment \o <<"snapshot", "current">>, ConfigSnapshotRequest),
    Route("ReleasedSnapshot", "POST", Environment \o <<"snapshot", "released">>, ConfigSnapshotRequest),
    Route("ListSnapshot", "POST", Environment \o <<"snapshot", "list">>, ListSnapshotRequest)>>

PublicationService ==
    LET Snapshot == Environment \o <<"snapshots", "snapshot_id">> IN <<
    Route("PublishSnapshot", "POST", Snapshot \o <<"publish">>, PublishSnapshotRequest),
    Route("UnpublishSnapshot", "POST", Snapshot \o <<"unpublish">>, PublishSnapshotRequest)>>

AssetService ==
    LET Assets == Environment \o <<"projects", "project_id", "assets">> IN <<
    Route("PresignAsset", "POST", Assets \o <<"presign">>, PresignAssetRequest),
    Route("CompleteAsset", "POST", Assets \o <<"complete">>, CompleteAssetRequest)>>

ProjectApiKeyService ==
    LET ApiKeys == Environment \o <<"projects", "project_id", "api-keys">> IN <<
    Route("ListProjectApiKeys", "GET", ApiKeys, ProjectApiKeyScopeRequest),
    Route("CreateProjectApiKey", "POST", ApiKeys, CreateProjectApiKeyRequest),
    Route("RotateProjectApiKey", "POST", ApiKeys \o <<"key_id", "rotate">>, ProjectApiKeyIDRequest),
    Route("RevokeProjectApiKey", "DELETE", ApiKeys \o <<"key_id">>, ProjectApiKeyIDRequest)>>

SnapshotTransferService == <<
    Route("ExportSnapshot", "GET",
          <<"admin", "environments", "source_environment_id", "snapshots", "snapshot_id", "export">>,
          ExportSnapshotRequest),
    Route("ImportSnapshot", "POST",
          <<"admin", "environments", "target_environment_id", "snapshot-imports">>,
          ImportSnapshotRequest)>>

Api == <<Route("Config", "GET", <<"v1", "config">>, ConfigRequest)>>

\* All routes, in the order they are registered.
registerHTTP ==
    AuthService \o SetupService \o EnvironmentService \o UserService \o RoleService
    \o ProjectService \o ConfigService \o StructureService \o EnumService
    \o SnapshotService \o PublicationService \o AssetService \o ProjectApiKeyService
    \o SnapshotTransferService \o Api

-----------------------------------------------------------------------------
(* The tables' text columns, in characters.                                *)

environments == [key |-> 64, name |-> 64, description |-> 255]

users == [username |-> 128, display_name |-> 128]

roles == [key |-> 64, name |-> 64, description |-> 255]

projects == [key |-> 128, name |-> 64, description |-> 255]

project_api_keys == [name |-> 64]

configs == [key |-> 128, description |-> 255]

structures == [key |-> 128, name |-> 64, description |-> 255]

config_enums == [key |-> 128, name |-> 64, description |-> 255]

snapshots == [description |-> 255]

import_records == [idempotency_key |-> 128]

-----------------------------------------------------------------------------
(* What the handlers store: by operation, the columns of the same names.   *)
(* Operations that are not listed store no text of their request.          *)

NamesOf(table) == [name |-> table.name, description |-> table.description]

EnvironmentHandlers ==
    [CreateEnvironment |-> environments, UpdateEnvironment |-> NamesOf(environments)]

UserHandlers ==
    [CreateUser |-> users, UpdateUser |-> [display_name |-> users.display_name]]

SetupHandlers == [CreateInitialAdmin |-> users]

RoleHandlers == [CreateRole |-> roles, UpdateRole |-> NamesOf(roles)]

ProjectHandlers == [CreateProject |-> projects, UpdateProject |-> NamesOf(projects)]

APIKeyHandlers == [CreateProjectApiKey |-> project_api_keys]

ConfigHandlers ==
    [CreateConfig |-> configs, UpdateConfig |-> [description |-> configs.description]]

StructureHandlers == [CreateStructure |-> structures, UpdateStructure |-> structures]

EnumHandlers == [CreateEnum |-> config_enums, UpdateEnum |-> config_enums]

SnapshotHandlers == [CreateSnapshot |-> snapshots]

ImportHandlers == [ImportSnapshot |-> snapshots ++ import_records]

Handlers ==
    EnvironmentHandlers ++ UserHandlers ++ SetupHandlers ++ RoleHandlers ++ ProjectHandlers
    ++ APIKeyHandlers ++ ConfigHandlers ++ StructureHandlers ++ EnumHandlers
    ++ SnapshotHandlers ++ ImportHandlers
=============================================================================
