---------------------------- MODULE Controllers ----------------------------
(***************************************************************************)
(* The controllers of internal/controller, one row for the Setup function  *)
(* of each package: the kind it watches, with its group and version, and   *)
(* the resource configuration it takes from the provider configuration.    *)
(* All the rest of these functions is the same: see Startup for how they   *)
(* use their options and fail, and Reconcile for what the controller does. *)
(***************************************************************************)
EXTENDS Schemas, FiniteSets

Controller(group, name, version, resource) ==
    [group |-> group, name |-> name, version |-> version, resource |-> resource]
NoResource == "none"

AclRoleController ==
    Controller("acl", "Role", "v1alpha1", "rediscloud_acl_role")
AclRuleController ==
    Controller("acl", "Rule", "v1alpha1", "rediscloud_acl_rule")
AclUserController ==
    Controller("acl", "User", "v1alpha1", "rediscloud_acl_user")
ActivePrivateServiceConnectController ==
    Controller("active", "ActivePrivateServiceConnect", "v1alpha1", "rediscloud_active_active_private_service_connect")
ActivePrivateServiceConnectEndpointController ==
    Controller("active", "ActivePrivateServiceConnectEndpoint", "v1alpha1", "rediscloud_active_active_private_service_connect_endpoint")
ActivePrivateServiceConnectEndpointAccepterController ==
    Controller("active", "ActivePrivateServiceConnectEndpointAccepter", "v1alpha1", "rediscloud_active_active_private_service_connect_endpoint_accepter")
ActiveSubscriptionController ==
    Controller("active", "ActiveSubscription", "v1alpha1", "rediscloud_active_active_subscription")
ActiveSubscriptionDatabaseController ==
    Controller("active", "ActiveSubscriptionDatabase", "v1alpha1", "rediscloud_active_active_subscription_database")
ActiveSubscriptionPeeringController ==
    Controller("active", "ActiveSubscriptionPeering", "v1alpha1", "rediscloud_active_active_subscription_peering")
ActiveSubscriptionRegionsController ==
    Controller("active", "ActiveSubscriptionRegions", "v1alpha1", "rediscloud_active_active_subscription_regions")
ActiveTransitGatewayAttachmentController ==
    Controller("active", "ActiveTransitGatewayAttachment", "v1alpha1", "rediscloud_active_active_transit_gateway_attachment")
CloudAccountController ==
    Controller("cloud", "Account", "v1alpha1", "rediscloud_cloud_account")
\* Mutant of EssentialsDatabaseController: the resource of the other kind named Database.
OtherDatabaseController ==
    Controller("essentials", "Database", "v1alpha1", "rediscloud_subscription_database")
EssentialsDatabaseController ==
    Controller("essentials", "Database", "v1alpha1", "rediscloud_essentials_database")
EssentialsSubscriptionController ==
    Controller("essentials", "Subscription", "v1alpha1", "rediscloud_essentials_subscription")
PrivateServiceConnectController ==
    Controller("private", "ServiceConnect", "v1alpha1", "rediscloud_private_service_connect")
PrivateServiceConnectEndpointController ==
    Controller("private", "ServiceConnectEndpoint", "v1alpha1", "rediscloud_private_service_connect_endpoint")
PrivateServiceConnectEndpointAccepterController ==
    Controller("private", "ServiceConnectEndpointAccepter", "v1alpha1", "rediscloud_private_service_connect_endpoint_accepter")
ProviderConfigController == Controller("", "ProviderConfig", "v1beta1", NoResource)
RediscloudSubscriptionController ==
    Controller("rediscloud", "Subscription", "v1alpha1", "rediscloud_subscription")
SubscriptionDatabaseController ==
    Controller("subscription", "Database", "v1alpha1", "rediscloud_subscription_database")
SubscriptionPeeringController ==
    Controller("subscription", "Peering", "v1alpha1", "rediscloud_subscription_peering")
TransitGatewayAttachmentController ==
    Controller("transit", "GatewayAttachment", "v1alpha1", "rediscloud_transit_gateway_attachment")

\* The order controller.Setup goes through them.
SetupOrder == <<
    AclRoleController, AclRuleController, AclUserController,
    ActivePrivateServiceConnectController, ActivePrivateServiceConnectEndpointController,
    ActivePrivateServiceConnectEndpointAccepterController, ActiveSubscriptionController,
    ActiveSubscriptionDatabaseController, ActiveSubscriptionPeeringController,
    ActiveSubscriptionRegionsController, ActiveTransitGatewayAttachmentController,
    CloudAccountController, EssentialsDatabaseController, EssentialsSubscriptionController,
    PrivateServiceConnectController, PrivateServiceConnectEndpointController,
    PrivateServiceConnectEndpointAccepterController, ProviderConfigController,
    RediscloudSubscriptionController, SubscriptionDatabaseController,
    SubscriptionPeeringController, TransitGatewayAttachmentController>>

---------------------------------------------------------------------------
\* The provider configuration (config/): the Terraform resources whose external name is
\* configured, all of them with the identifier the provider chooses.
ExternalNameConfigs == {
    "rediscloud_acl_role", "rediscloud_acl_rule", "rediscloud_acl_user",
    "rediscloud_active_active_private_service_connect",
    "rediscloud_active_active_private_service_connect_endpoint",
    "rediscloud_active_active_private_service_connect_endpoint_accepter",
    "rediscloud_active_active_subscription", "rediscloud_active_active_subscription_database",
    "rediscloud_active_active_subscription_peering",
    "rediscloud_active_active_subscription_regions",
    "rediscloud_active_active_transit_gateway_attachment", "rediscloud_cloud_account",
    "rediscloud_essentials_database", "rediscloud_essentials_subscription",
    "rediscloud_private_service_connect", "rediscloud_private_service_connect_endpoint",
    "rediscloud_private_service_connect_endpoint_accepter", "rediscloud_subscription",
    "rediscloud_subscription_database", "rediscloud_subscription_peering",
    "rediscloud_transit_gateway_attachment"}

\* The resources of the schema whose names are on that list are included.
Resources == {r \in DOMAIN TerraformRequires : r \in ExternalNameConfigs}
=============================================================================
