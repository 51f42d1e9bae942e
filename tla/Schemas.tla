------------------------------ MODULE Schemas ------------------------------
(***************************************************************************)
(* The 21 kinds of apis/*/v1alpha1 as tables.  The Go types come in        *)
(* threes: XInitParameters, XParameters and XObservation hold the fields   *)
(* of spec.initProvider, spec.forProvider and status.atProvider.  One      *)
(* definition stands for the three; it maps the JSON name of each field to *)
(* how the field is declared.  Fields differ for the program only in the   *)
(* class of their values, in which of the three structs they occur, and in *)
(* whether an absent value is left out or written as null: strings,        *)
(* numbers and booleans are all scalars.  XInitParameters declares the     *)
(* fields of XParameters for every X.                                      *)
(***************************************************************************)
EXTENDS TLC

---------------------------------------------------------------------------
\* How a field is declared.

Field(class, structs, null, of) ==
    [class |-> class, structs |-> structs, null |-> null, of |-> of]
\* The fields of two parts of a struct.
s ++ t == [n \in DOMAIN s \cup DOMAIN t |-> IF n \in DOMAIN s THEN s[n] ELSE t[n]]
Declare(names, field) == [n \in names |-> field]
Given == {"init", "for", "at"}
NoStruct == <<>>

\* Pointers with omitempty, and pointers XParameters writes as null when nil.
Optional(names) == Declare(names, Field("scalar", Given, FALSE, NoStruct))
Demand(names) == Declare(names, Field("scalar", Given, TRUE, NoStruct))
\* Fields of XObservation alone.
Computed(names) == Declare(names, Field("scalar", {"at"}, FALSE, NoStruct))
\* Slices and maps of scalars.
Lists(names) == Declare(names, Field("list", Given, FALSE, NoStruct))
DemandedLists(names) == Declare(names, Field("list", Given, TRUE, NoStruct))
Maps(names) == Declare(names, Field("map", Given, FALSE, NoStruct))
\* Slices of structs, which Terraform calls blocks.
Nested(struct) == Field("blocks", Given, FALSE, struct)
Demanded(struct) == Field("blocks", Given, TRUE, struct)
Reported(struct) == Field("blocks", {"at"}, FALSE, struct)
\* Secret selectors, by pointer with omitempty or embedded: an embedded selector is
\* part of whatever the program writes.
Referenced(names) == Declare(names, Field("reference", {"init", "for"}, FALSE, NoStruct))
Embedded(names) == Declare(names, Field("embedded", {"init", "for"}, TRUE, NoStruct))

\* A kind: its group and name, the struct of its parameters, and the parameters and
\* secret selectors its CEL rules require.
Kind(group, name, struct, required, secrets) ==
    [group |-> group, name |-> name, struct |-> struct,
     required |-> required, secrets |-> secrets]

\* A kind's methods for Terraform: the resource type, and which secret selector each
\* sensitive argument is read from.
Terraformed(type, sensitive) == [type |-> type, sensitive |-> sensitive]
NoSecrets == <<>>
---------------------------------------------------------------------------

\* acl/v1alpha1/zz_role_types.go
AclDatabase == Demand({"database", "subscription"}) ++ Lists({"regions"})
AclRule == Demand({"name"}) ++ [database |-> Demanded(AclDatabase)]
AclRole == Optional({"name"}) ++ Computed({"id"}) ++ [rule |-> Nested(AclRule)]
AclRoleKind == Kind("acl", "Role", AclRole, {"name", "rule"}, {})
AclRoleTerraformed == Terraformed("rediscloud_acl_role", NoSecrets)

\* acl/v1alpha1/zz_rule_types.go
AclRule_2 == Optional({"name", "rule"}) ++ Computed({"id"})
AclRuleKind == Kind("acl", "Rule", AclRule_2, {"name", "rule"}, {})
AclRuleTerraformed == Terraformed("rediscloud_acl_rule", NoSecrets)

\* acl/v1alpha1/zz_user_types.go
AclUser ==
    Optional({"name", "role"})
    ++ Embedded({"passwordSecretRef"})
    ++ Computed({"id"})
AclUserKind == Kind("acl", "User", AclUser, {"name", "role"}, {"passwordSecretRef"})
AclUserTerraformed ==
    Terraformed("rediscloud_acl_user",
        <<"password">> :> <<"passwordSecretRef">>)

\* active/v1alpha1/zz_activeprivateserviceconnect_types.go
ActivePrivateServiceConnect ==
    Optional({"regionId", "subscriptionId"})
    ++ Computed({"id", "privateServiceConnectServiceId"})
ActivePrivateServiceConnectKind ==
    Kind("active", "ActivePrivateServiceConnect", ActivePrivateServiceConnect,
        {"regionId", "subscriptionId"},
        {})
ActivePrivateServiceConnectTerraformed ==
    Terraformed("rediscloud_active_active_private_service_connect",
        NoSecrets)

\* active/v1alpha1/zz_activeprivateserviceconnectendpoint_types.go
ActiveServiceAttachments ==
    Computed({"dnsRecord", "forwardingRuleName", "ipAddressName", "name"})
ActivePrivateServiceConnectEndpoint ==
    Optional({"endpointConnectionName", "gcpProjectId", "gcpVpcName",
           "gcpVpcSubnetName", "privateServiceConnectServiceId", "regionId",
           "subscriptionId"})
    ++ Computed({"id", "privateServiceConnectEndpointId"})
    ++ [serviceAttachments |-> Reported(ActiveServiceAttachments)]
ActivePrivateServiceConnectEndpointKind ==
    Kind("active", "ActivePrivateServiceConnectEndpoint", ActivePrivateServiceConnectEndpoint,
        {"endpointConnectionName", "gcpProjectId", "gcpVpcName",
         "gcpVpcSubnetName", "privateServiceConnectServiceId", "regionId",
         "subscriptionId"},
        {})
ActivePrivateServiceConnectEndpointTerraformed ==
    Terraformed("rediscloud_active_active_private_service_connect_endpoint",
        NoSecrets)

\* active/v1alpha1/zz_activeprivateserviceconnectendpointaccepter_types.go
ActivePrivateServiceConnectEndpointAccepter ==
    Optional({"action", "privateServiceConnectEndpointId",
           "privateServiceConnectServiceId", "regionId", "subscriptionId"})
    ++ Computed({"id"})
ActivePrivateServiceConnectEndpointAccepterKind ==
    Kind("active", "ActivePrivateServiceConnectEndpointAccepter", ActivePrivateServiceConnectEndpointAccepter,
        {"action", "privateServiceConnectEndpointId",
         "privateServiceConnectServiceId", "regionId", "subscriptionId"},
        {})
ActivePrivateServiceConnectEndpointAccepterTerraformed ==
    Terraformed("rediscloud_active_active_private_service_connect_endpoint_accepter",
        NoSecrets)

\* active/v1alpha1/zz_activesubscription_types.go
ActiveRegion ==
    Demand({"networkingDeploymentCidr", "readOperationsPerSecond", "region",
           "writeOperationsPerSecond"})
ActiveCreationPlan ==
    Demand({"quantity"})
    ++ Optional({"datasetSizeInGb", "memoryLimitInGb"})
    ++ Lists({"modules"})
    ++ [region |-> Demanded(ActiveRegion)]
ActiveWindow == Demand({"durationInHours", "startHour"}) ++ DemandedLists({"days"})
ActiveMaintenanceWindows == Demand({"mode"}) ++ [window |-> Nested(ActiveWindow)]
ActivePricing ==
    Computed({"databaseName", "priceCurrency", "pricePerUnit", "pricePeriod",
           "quantity", "quantityMeasurement", "region", "type", "typeDetails"})
ActiveSubscription ==
    Optional({"cloudProvider", "name", "paymentMethod", "paymentMethodId",
           "redisVersion"})
    ++ Computed({"id"})
    ++ [creationPlan |-> Nested(ActiveCreationPlan), maintenanceWindows |->
        Nested(ActiveMaintenanceWindows), pricing |-> Reported(ActivePricing)]
ActiveSubscriptionKind ==
    Kind("active", "ActiveSubscription", ActiveSubscription,
        {},
        {})
ActiveSubscriptionTerraformed ==
    Terraformed("rediscloud_active_active_subscription",
        NoSecrets)

\* active/v1alpha1/zz_activesubscriptiondatabase_types.go
ActiveGlobalAlert == Demand({"name", "value"})
ActiveOverrideGlobalAlert == Demand({"name", "value"})
ActiveRemoteBackup ==
    Demand({"interval", "storagePath", "storageType"})
    ++ Optional({"timeUtc"})
ActiveOverrideRegion ==
    Demand({"name"})
    ++ Optional({"overrideGlobalDataPersistence"})
    ++ Lists({"overrideGlobalSourceIps"})
    ++ Referenced({"overrideGlobalPasswordSecretRef"})
    ++ [overrideGlobalAlert |-> Nested(ActiveOverrideGlobalAlert), remoteBackup |->
        Nested(ActiveRemoteBackup)]
ActiveSubscriptionDatabase ==
    Optional({"clientSslCertificate", "dataEviction", "datasetSizeInGb",
           "enableTls", "externalEndpointForOssClusterApi", "globalDataPersistence",
           "globalRespVersion", "memoryLimitInGb", "name", "port", "subscriptionId",
           "supportOssClusterApi"})
    ++ Lists({"clientTlsCertificates", "globalModules", "globalSourceIps"})
    ++ Maps({"tags"})
    ++ Referenced({"globalPasswordSecretRef"})
    ++ Computed({"dbId", "id", "privateEndpoint", "publicEndpoint"})
    ++ [globalAlert |-> Nested(ActiveGlobalAlert), overrideRegion |->
        Nested(ActiveOverrideRegion)]
ActiveSubscriptionDatabaseKind ==
    Kind("active", "ActiveSubscriptionDatabase", ActiveSubscriptionDatabase,
        {"name", "subscriptionId"},
        {})
ActiveSubscriptionDatabaseTerraformed ==
    Terraformed("rediscloud_active_active_subscription_database",
        <<"globalPassword">> :> <<"globalPasswordSecretRef">>
        @@ <<"overrideRegion", "overrideGlobalPassword">> :> <<"overrideRegion", "overrideGlobalPasswordSecretRef">>)

\* active/v1alpha1/zz_activesubscriptionpeering_types.go
ActiveSubscriptionPeering ==
    Optional({"awsAccountId", "destinationRegion", "gcpNetworkName",
           "gcpProjectId", "providerName", "sourceRegion", "subscriptionId",
           "vpcCidr", "vpcId"})
    ++ Lists({"vpcCidrs"})
    ++ Computed({"awsPeeringId", "gcpPeeringId", "gcpRedisNetworkName",
           "gcpRedisProjectId", "id", "status"})
ActiveSubscriptionPeeringKind ==
    Kind("active", "ActiveSubscriptionPeering", ActiveSubscriptionPeering,
        {"subscriptionId"},
        {})
ActiveSubscriptionPeeringTerraformed ==
    Terraformed("rediscloud_active_active_subscription_peering",
        NoSecrets)

\* active/v1alpha1/zz_activesubscriptionregions_types.go
ActiveDatabase ==
    Demand({"databaseId", "databaseName", "localReadOperationsPerSecond",
           "localWriteOperationsPerSecond"})
ActiveSubscriptionRegionsRegion ==
    Demand({"networkingDeploymentCidr", "region"})
    ++ Optional({"localRespVersion", "recreateRegion"})
    ++ Computed({"regionId", "vpcId"})
    ++ [database |-> Demanded(ActiveDatabase)]
ActiveSubscriptionRegions ==
    Optional({"deleteRegions", "subscriptionId"})
    ++ Computed({"id"})
    ++ [region |-> Nested(ActiveSubscriptionRegionsRegion)]
ActiveSubscriptionRegionsKind ==
    Kind("active", "ActiveSubscriptionRegions", ActiveSubscriptionRegions,
        {"region", "subscriptionId"},
        {})
ActiveSubscriptionRegionsTerraformed ==
    Terraformed("rediscloud_active_active_subscription_regions",
        NoSecrets)

\* active/v1alpha1/zz_activetransitgatewayattachment_types.go
ActiveTransitGatewayAttachment ==
    Optional({"regionId", "subscriptionId", "tgwId"})
    ++ Lists({"cidrs"})
    ++ Computed({"attachmentStatus", "attachmentUid", "awsAccountId",
           "awsTgwUid", "id", "status"})
ActiveTransitGatewayAttachmentKind ==
    Kind("active", "ActiveTransitGatewayAttachment", ActiveTransitGatewayAttachment,
        {"regionId", "subscriptionId", "tgwId"},
        {})
ActiveTransitGatewayAttachmentTerraformed ==
    Terraformed("rediscloud_active_active_transit_gateway_attachment",
        NoSecrets)

\* cloud/v1alpha1/zz_account_types.go
CloudAccount ==
    Optional({"accessKeyId", "consoleUsername", "name", "providerType",
           "signInLoginUrl"})
    ++ Embedded({"accessSecretKeySecretRef", "consolePasswordSecretRef"})
    ++ Computed({"id", "status"})
CloudAccountKind ==
    Kind("cloud", "Account", CloudAccount,
        {"accessKeyId", "consoleUsername", "name", "providerType",
         "signInLoginUrl"},
        {"accessSecretKeySecretRef", "consolePasswordSecretRef"})
CloudAccountTerraformed ==
    Terraformed("rediscloud_cloud_account",
        <<"accessSecretKey">> :> <<"accessSecretKeySecretRef">>
        @@ <<"consolePassword">> :> <<"consolePasswordSecretRef">>)

\* essentials/v1alpha1/zz_database_types.go
EssentialsAlert == Demand({"name", "value"})
EssentialsModules == Optional({"name"})
EssentialsSyncSource ==
    Demand({"endpoint"})
    ++ Optional({"encryption", "serverCert"})
EssentialsReplica == [syncSource |-> Demanded(EssentialsSyncSource)]
EssentialsDatabase ==
    Optional({"dataEviction", "dataPersistence", "enableDatabaseClustering",
           "enableDefaultUser", "enablePaygFeatures", "enableTls",
           "externalEndpointForOssClusterApi", "memoryLimitInGb", "name",
           "periodicBackupPath", "protocol", "replication", "respVersion",
           "subscriptionId", "supportOssClusterApi"})
    ++ Lists({"clientTlsCertificates", "regexRules", "sourceIps"})
    ++ Maps({"tags"})
    ++ Referenced({"passwordSecretRef"})
    ++ Computed({"activatedOn", "cloudProvider", "dbId", "id",
           "privateEndpoint", "publicEndpoint", "redisVersionCompliance", "region"})
    ++ [alert |-> Nested(EssentialsAlert), modules |-> Nested(EssentialsModules),
        replica |-> Nested(EssentialsReplica)]
EssentialsDatabaseKind ==
    Kind("essentials", "Database", EssentialsDatabase,
        {"dataPersistence", "name", "replication", "subscriptionId"},
        {})
EssentialsDatabaseTerraformed ==
    Terraformed("rediscloud_essentials_database",
        <<"password">> :> <<"passwordSecretRef">>)

\* essentials/v1alpha1/zz_subscription_types.go
EssentialsSubscription ==
    Optional({"name", "paymentMethod", "paymentMethodId", "planId"})
    ++ Computed({"creationDate", "id", "status"})
EssentialsSubscriptionKind ==
    Kind("essentials", "Subscription", EssentialsSubscription,
        {"name", "planId"},
        {})
EssentialsSubscriptionTerraformed ==
    Terraformed("rediscloud_essentials_subscription",
        NoSecrets)

\* private/v1alpha1/zz_serviceconnect_types.go
PrivateServiceConnect ==
    Optional({"subscriptionId"})
    ++ Computed({"id", "privateServiceConnectServiceId"})
PrivateServiceConnectKind ==
    Kind("private", "ServiceConnect", PrivateServiceConnect,
        {"subscriptionId"},
        {})
PrivateServiceConnectTerraformed ==
    Terraformed("rediscloud_private_service_connect",
        NoSecrets)

\* private/v1alpha1/zz_serviceconnectendpoint_types.go
PrivateServiceAttachments ==
    Computed({"dnsRecord", "forwardingRuleName", "ipAddressName", "name"})
PrivateServiceConnectEndpoint ==
    Optional({"endpointConnectionName", "gcpProjectId", "gcpVpcName",
           "gcpVpcSubnetName", "privateServiceConnectServiceId", "subscriptionId"})
    ++ Computed({"id", "privateServiceConnectEndpointId"})
    ++ [serviceAttachments |-> Reported(PrivateServiceAttachments)]
PrivateServiceConnectEndpointKind ==
    Kind("private", "ServiceConnectEndpoint", PrivateServiceConnectEndpoint,
        {"endpointConnectionName", "gcpProjectId", "gcpVpcName",
         "gcpVpcSubnetName", "privateServiceConnectServiceId", "subscriptionId"},
        {})
PrivateServiceConnectEndpointTerraformed ==
    Terraformed("rediscloud_private_service_connect_endpoint",
        NoSecrets)

\* private/v1alpha1/zz_serviceconnectendpointaccepter_types.go
PrivateServiceConnectEndpointAccepter ==
    Optional({"action", "privateServiceConnectEndpointId",
           "privateServiceConnectServiceId", "subscriptionId"})
    ++ Computed({"id"})
PrivateServiceConnectEndpointAccepterKind ==
    Kind("private", "ServiceConnectEndpointAccepter", PrivateServiceConnectEndpointAccepter,
        {"action", "privateServiceConnectEndpointId",
         "privateServiceConnectServiceId", "subscriptionId"},
        {})
PrivateServiceConnectEndpointAccepterTerraformed ==
    Terraformed("rediscloud_private_service_connect_endpoint_accepter",
        NoSecrets)

\* rediscloud/v1alpha1/zz_subscription_types.go
RediscloudAllowlist == DemandedLists({"securityGroupIds"}) ++ Lists({"cidrs"})
RediscloudNetworks ==
    Computed({"networkingDeploymentCidr", "networkingSubnetId",
           "networkingVpcId"})
RediscloudRegion ==
    Demand({"networkingDeploymentCidr", "region"})
    ++ Optional({"multipleAvailabilityZones", "networkingVpcId"})
    ++ Lists({"preferredAvailabilityZones"})
    ++ [networks |-> Reported(RediscloudNetworks)]
RediscloudCloudProvider ==
    Optional({"cloudAccountId", "provider"})
    ++ [region |-> Demanded(RediscloudRegion)]
RediscloudCreationPlan ==
    Demand({"quantity", "replication", "throughputMeasurementBy",
           "throughputMeasurementValue"})
    ++ Optional({"averageItemSizeInBytes", "datasetSizeInGb", "memoryLimitInGb",
           "queryPerformanceFactor", "supportOssClusterApi"})
    ++ Lists({"modules"})
RediscloudWindow ==
    Demand({"durationInHours", "startHour"})
    ++ DemandedLists({"days"})
RediscloudMaintenanceWindows ==
    Demand({"mode"})
    ++ [window |-> Nested(RediscloudWindow)]
RediscloudPricing ==
    Computed({"databaseName", "priceCurrency", "pricePerUnit", "pricePeriod",
           "quantity", "quantityMeasurement", "region", "type", "typeDetails"})
RediscloudSubscription ==
    Optional({"memoryStorage", "name", "paymentMethod", "paymentMethodId",
           "redisVersion"})
    ++ Computed({"id"})
    ++ [allowlist |-> Nested(RediscloudAllowlist), cloudProvider |->
        Nested(RediscloudCloudProvider), creationPlan |->
        Nested(RediscloudCreationPlan), maintenanceWindows |->
        Nested(RediscloudMaintenanceWindows), pricing |->
        Reported(RediscloudPricing)]
RediscloudSubscriptionKind ==
    Kind("rediscloud", "Subscription", RediscloudSubscription,
        {"cloudProvider"},
        {})
RediscloudSubscriptionTerraformed ==
    Terraformed("rediscloud_subscription",
        NoSecrets)

\* subscription/v1alpha1/zz_database_types.go
SubscriptionAlert == Demand({"name", "value"})
SubscriptionModules == Optional({"name"})
SubscriptionRemoteBackup ==
    Demand({"interval", "storagePath", "storageType"})
    ++ Optional({"timeUtc"})
SubscriptionDatabase ==
    Optional({"averageItemSizeInBytes", "clientSslCertificate",
           "dataEviction", "dataPersistence", "datasetSizeInGb",
           "enableDefaultUser", "enableTls", "externalEndpointForOssClusterApi",
           "memoryLimitInGb", "name", "periodicBackupPath", "port", "protocol",
           "queryPerformanceFactor", "replication", "respVersion", "subscriptionId",
           "supportOssClusterApi", "throughputMeasurementBy",
           "throughputMeasurementValue"})
    ++ Lists({"clientTlsCertificates", "hashingPolicy", "replicaOf",
           "sourceIps"})
    ++ Maps({"tags"})
    ++ Referenced({"passwordSecretRef"})
    ++ Computed({"dbId", "id", "privateEndpoint", "publicEndpoint"})
    ++ [alert |-> Nested(SubscriptionAlert), modules |->
        Nested(SubscriptionModules), remoteBackup |->
        Nested(SubscriptionRemoteBackup)]
SubscriptionDatabaseKind ==
    Kind("subscription", "Database", SubscriptionDatabase,
        {"name", "subscriptionId", "throughputMeasurementBy",
         "throughputMeasurementValue"},
        {})
SubscriptionDatabaseTerraformed ==
    Terraformed("rediscloud_subscription_database",
        <<"password">> :> <<"passwordSecretRef">>)

\* subscription/v1alpha1/zz_peering_types.go
SubscriptionPeering ==
    Optional({"awsAccountId", "gcpNetworkName", "gcpProjectId",
           "providerName", "region", "subscriptionId", "vpcCidr", "vpcId"})
    ++ Lists({"vpcCidrs"})
    ++ Computed({"awsPeeringId", "gcpPeeringId", "gcpRedisNetworkName",
           "gcpRedisProjectId", "id", "status"})
SubscriptionPeeringKind ==
    Kind("subscription", "Peering", SubscriptionPeering,
        {"subscriptionId"},
        {})
SubscriptionPeeringTerraformed ==
    Terraformed("rediscloud_subscription_peering",
        NoSecrets)

\* transit/v1alpha1/zz_gatewayattachment_types.go
TransitGatewayAttachment ==
    Optional({"subscriptionId", "tgwId"})
    ++ Lists({"cidrs"})
    ++ Computed({"attachmentStatus", "attachmentUid", "awsAccountId",
           "awsTgwUid", "id", "status"})
TransitGatewayAttachmentKind ==
    Kind("transit", "GatewayAttachment", TransitGatewayAttachment,
        {"subscriptionId", "tgwId"},
        {})
TransitGatewayAttachmentTerraformed ==
    Terraformed("rediscloud_transit_gateway_attachment",
        NoSecrets)

---------------------------------------------------------------------------
\* The kinds, and their Terraform methods, by name.
Kinds == [
    AclRole |-> AclRoleKind,
    AclRule |-> AclRuleKind,
    AclUser |-> AclUserKind,
    ActivePrivateServiceConnect |-> ActivePrivateServiceConnectKind,
    ActivePrivateServiceConnectEndpoint |-> ActivePrivateServiceConnectEndpointKind,
    ActivePrivateServiceConnectEndpointAccepter |-> ActivePrivateServiceConnectEndpointAccepterKind,
    ActiveSubscription |-> ActiveSubscriptionKind,
    ActiveSubscriptionDatabase |-> ActiveSubscriptionDatabaseKind,
    ActiveSubscriptionPeering |-> ActiveSubscriptionPeeringKind,
    ActiveSubscriptionRegions |-> ActiveSubscriptionRegionsKind,
    ActiveTransitGatewayAttachment |-> ActiveTransitGatewayAttachmentKind,
    CloudAccount |-> CloudAccountKind,
    EssentialsDatabase |-> EssentialsDatabaseKind,
    EssentialsSubscription |-> EssentialsSubscriptionKind,
    PrivateServiceConnect |-> PrivateServiceConnectKind,
    PrivateServiceConnectEndpoint |-> PrivateServiceConnectEndpointKind,
    PrivateServiceConnectEndpointAccepter |-> PrivateServiceConnectEndpointAccepterKind,
    RediscloudSubscription |-> RediscloudSubscriptionKind,
    SubscriptionDatabase |-> SubscriptionDatabaseKind,
    SubscriptionPeering |-> SubscriptionPeeringKind,
    TransitGatewayAttachment |-> TransitGatewayAttachmentKind]

TerraformedKinds == [
    AclRole |-> AclRoleTerraformed,
    AclRule |-> AclRuleTerraformed,
    AclUser |-> AclUserTerraformed,
    ActivePrivateServiceConnect |-> ActivePrivateServiceConnectTerraformed,
    ActivePrivateServiceConnectEndpoint |-> ActivePrivateServiceConnectEndpointTerraformed,
    ActivePrivateServiceConnectEndpointAccepter |-> ActivePrivateServiceConnectEndpointAccepterTerraformed,
    ActiveSubscription |-> ActiveSubscriptionTerraformed,
    ActiveSubscriptionDatabase |-> ActiveSubscriptionDatabaseTerraformed,
    ActiveSubscriptionPeering |-> ActiveSubscriptionPeeringTerraformed,
    ActiveSubscriptionRegions |-> ActiveSubscriptionRegionsTerraformed,
    ActiveTransitGatewayAttachment |-> ActiveTransitGatewayAttachmentTerraformed,
    CloudAccount |-> CloudAccountTerraformed,
    EssentialsDatabase |-> EssentialsDatabaseTerraformed,
    EssentialsSubscription |-> EssentialsSubscriptionTerraformed,
    PrivateServiceConnect |-> PrivateServiceConnectTerraformed,
    PrivateServiceConnectEndpoint |-> PrivateServiceConnectEndpointTerraformed,
    PrivateServiceConnectEndpointAccepter |-> PrivateServiceConnectEndpointAccepterTerraformed,
    RediscloudSubscription |-> RediscloudSubscriptionTerraformed,
    SubscriptionDatabase |-> SubscriptionDatabaseTerraformed,
    SubscriptionPeering |-> SubscriptionPeeringTerraformed,
    TransitGatewayAttachment |-> TransitGatewayAttachmentTerraformed]

KindNames == DOMAIN Kinds

\* What the Terraform provider requires at the top level of each resource type, and
\* which of its arguments are sensitive (config/schema.json, the input of the
\* generator of the tables above).
TerraformRequires == [
    rediscloud_acl_role |-> {"name", "rule"},
    rediscloud_acl_rule |-> {"name", "rule"},
    rediscloud_acl_user |-> {"name", "password", "role"},
    rediscloud_active_active_private_service_connect |->
        {"regionId", "subscriptionId"},
    rediscloud_active_active_private_service_connect_endpoint |->
        {"endpointConnectionName", "gcpProjectId", "gcpVpcName",
         "gcpVpcSubnetName", "privateServiceConnectServiceId", "regionId",
         "subscriptionId"},
    rediscloud_active_active_private_service_connect_endpoint_accepter |->
        {"action", "privateServiceConnectEndpointId",
         "privateServiceConnectServiceId", "regionId", "subscriptionId"},
    rediscloud_active_active_subscription |-> {},
    rediscloud_active_active_subscription_database |-> {"name", "subscriptionId"},
    rediscloud_active_active_subscription_peering |-> {"subscriptionId"},
    rediscloud_active_active_subscription_regions |-> {"subscriptionId", "region"},
    rediscloud_active_active_transit_gateway_attachment |->
        {"regionId", "subscriptionId", "tgwId"},
    rediscloud_cloud_account |->
        {"accessKeyId", "accessSecretKey", "consolePassword", "consoleUsername",
         "name", "providerType", "signInLoginUrl"},
    rediscloud_essentials_database |->
        {"dataPersistence", "name", "replication", "subscriptionId"},
    rediscloud_essentials_subscription |-> {"name", "planId"},
    rediscloud_private_service_connect |-> {"subscriptionId"},
    rediscloud_private_service_connect_endpoint |->
        {"endpointConnectionName", "gcpProjectId", "gcpVpcName",
         "gcpVpcSubnetName", "privateServiceConnectServiceId", "subscriptionId"},
    rediscloud_private_service_connect_endpoint_accepter |->
        {"action", "privateServiceConnectEndpointId",
         "privateServiceConnectServiceId", "subscriptionId"},
    rediscloud_subscription |-> {"cloudProvider"},
    rediscloud_subscription_database |->
        {"name", "subscriptionId", "throughputMeasurementBy",
         "throughputMeasurementValue"},
    rediscloud_subscription_peering |-> {"subscriptionId"},
    rediscloud_transit_gateway_attachment |-> {"subscriptionId", "tgwId"}]
TerraformSensitive == [type \in DOMAIN TerraformRequires |->
    CASE type = "rediscloud_acl_user" ->
           {<<"password">>}
      [] type = "rediscloud_active_active_subscription_database" ->
           {<<"globalPassword">>, <<"overrideRegion", "overrideGlobalPassword">>}
      [] type = "rediscloud_cloud_account" ->
           {<<"accessSecretKey">>, <<"consolePassword">>}
      [] type = "rediscloud_essentials_database" ->
           {<<"password">>}
      [] type = "rediscloud_subscription_database" ->
           {<<"password">>}
      [] OTHER -> {}]

---------------------------------------------------------------------------
\* What the rest of the model asks of the tables.

\* The fields of a struct that occur in one of the three Go structs.
In(struct, go) == {f \in DOMAIN struct : go \in struct[f].structs}
Secrets(struct) == {f \in DOMAIN struct : struct[f].class \in {"reference", "embedded"}}
Selectors(struct) == {f \in DOMAIN struct : struct[f].class = "embedded"}
Arguments(struct) == In(struct, "for") \ Secrets(struct)

Inner(struct) == {f \in Arguments(struct) : struct[f].class = "blocks"}

\* The parameters of a kind are a struct of structs of structs, and nest no deeper.
ASSUME ThreeDeep ==
    \A k \in KindNames :
        LET struct == Kinds[k].struct
        IN  \A f \in Inner(struct) : \A g \in Inner(struct[f].of) :
                Inner(struct[f].of[g].of) = {}
=============================================================================
