--------------------------- MODULE ProviderProofs ---------------------------
(***************************************************************************)
(* Theorems of Startup, for any number of replicas and of controllers: a   *)
(* process that works has set up every one of them with the options its    *)
(* command line asks for, and Setup never dereferences what is not there.  *)
(* Then what the processes of this provider serve once they run, for any   *)
(* number of replicas, failures and edits: every kind, each with one       *)
(* controller and its own Terraform resource, by what the tables of        *)
(* Controllers say.                                                        *)
(***************************************************************************)
EXTENDS Provider, FiniteSetTheorems, TLAPS

---------------------------------------------------------------------------
\* The start-up.

\* The initial states are of the right types.
LEMMA TypeInit == Init => TypeOK
BY CountAssumption, StartupBounds DEF Init, TypeOK, Statements, Options, NoOptions, Opts, Stores

\* Every step keeps the types.
LEMMA TypeStep == TypeOK /\ [Next]_vars => TypeOK'
<1> SUFFICES ASSUME TypeOK, [Next]_vars PROVE TypeOK'
    OBVIOUS
<1> USE CountAssumption, StartupBounds DEF TypeOK, Statements
<1>1. CASE EditStore
    BY <1>1 DEF EditStore, own, Stores
<1>2. ASSUME NEW r \in Replicas, Launch(r) PROVE TypeOK'
    BY <1>2 DEF Launch, Options, NoOptions, Opts
<1>3. ASSUME NEW r \in Replicas, Connect(r) PROVE TypeOK'
    BY <1>3 DEF Connect, Goes
<1>4. ASSUME NEW r \in Replicas, EnableStores(r) PROVE TypeOK'
    <2>1. Opts(TRUE, TRUE, options[r].tls, options[r].policies) \in Options
        BY DEF Options, Opts
    <2> QED
        BY <1>4, <2>1 DEF EnableStores, Goes, Sets
<1>5. ASSUME NEW r \in Replicas, LoadTLS(r) PROVE TypeOK'
    <2>1. Opts(options[r].gvk, options[r].essOptions, flags[r].certs, options[r].policies) \in Options
        BY DEF Options, Flags, Opts
    <2> QED
        BY <1>5, <2>1 DEF LoadTLS, Goes, Sets
<1>6. ASSUME NEW r \in Replicas, CreateStore(r) PROVE TypeOK'
    <2>1. [scope |-> flags[r].namespace, by |-> "provider"] \in Stores
        BY DEF Stores, Flags
    <2> QED
        BY <1>6, <2>1 DEF CreateStore, Goes
<1>7. ASSUME NEW r \in Replicas, EnablePolicies(r) PROVE TypeOK'
    <2>1. Opts(options[r].gvk, options[r].essOptions, options[r].tls, flags[r].policies) \in Options
        BY DEF Options, Flags, Opts
    <2> QED
        BY <1>7, <2>1 DEF EnablePolicies, Goes, Sets
<1>8. ASSUME NEW r \in Replicas, SetupController(r) PROVE TypeOK'
    BY <1>8 DEF SetupController
<1>9. ASSUME NEW r \in Replicas, Start(r) PROVE TypeOK'
    BY <1>9 DEF Start, Goes
<1>10. ASSUME NEW r \in Replicas, Fail(r) PROVE TypeOK'
    BY <1>10 DEF Fail
<1>11. CASE UNCHANGED vars
    BY <1>11 DEF vars, own
<1> QED
    BY <1>1, <1>2, <1>3, <1>4, <1>5, <1>6, <1>7, <1>8, <1>9, <1>10, <1>11 DEF Next, Steps

\* Every reachable state has the types of TypeOK.
THEOREM TypeCorrect == Spec => []TypeOK
<1>1. Init /\ [][Next]_vars => []TypeOK
    BY TypeInit, TypeStep, PTL
<1> QED
    BY <1>1, PTL DEF Spec

---------------------------------------------------------------------------
\* A replica whose variables do not change keeps its part of the invariant.
LEMMA Undisturbed ==
    ASSUME NEW q \in Replicas, OptionsInvOf(q),
           pc'[q] = pc[q], options'[q] = options[q], next'[q] = next[q],
           registered'[q] = registered[q], seen'[q] = seen[q], flags' = flags
    PROVE  OptionsInvOf(q)'
BY DEF OptionsInvOf

\* Nothing is filled in or set up at the start.
LEMMA OptionsInit == Init => OptionsInv
BY DEF Init, OptionsInv, OptionsInvOf

\* Every step of a replica keeps its own part of the invariant.
LEMMA OptionsStepOf ==
    ASSUME TypeOK, NEW r \in Replicas, OptionsInvOf(r), Steps(r) \/ Fail(r)
    PROVE  OptionsInvOf(r)'
<1> USE CountAssumption DEF TypeOK
<1>0. flags[r] \in Flags /\ options[r] \in Options /\ next[r] \in Nat
    OBVIOUS
<1>2. CASE Launch(r)
    BY <1>2 DEF Launch, OptionsInvOf, OptionsAt, Begun
<1>3. CASE Connect(r)
    BY <1>3 DEF Connect, Goes, OptionsInvOf, OptionsAt, Begun
<1>4. CASE EnableStores(r)
    <2>1. options[r] = NoOptions /\ registered[r] = 1 .. next[r] - 1 /\ next[r] = 1 /\ seen[r] = {}
        BY <1>4 DEF EnableStores, Goes, OptionsInvOf, OptionsAt, Begun
    <2>2. CASE flags[r].stores
        <3>1. options'[r] = Opts(TRUE, TRUE, options[r].tls, options[r].policies)
              /\ pc'[r] = "loadTLS" /\ flags' = flags
            BY <1>4, <2>2 DEF EnableStores, Goes, Sets
        <3>2. options[r].tls = FALSE /\ options[r].policies = FALSE
            BY <2>1 DEF NoOptions, Opts
        <3>3. flags[r].stores = TRUE
            BY <1>0, <2>2 DEF Flags
        <3>4. options'[r] = OptionsAt("loadTLS", flags[r])
            BY <3>1, <3>2, <3>3 DEF OptionsAt, Begun
        <3> QED
            BY <1>4, <2>1, <2>2, <3>1, <3>4 DEF EnableStores, OptionsInvOf
    <2>3. CASE ~flags[r].stores
        <3>1. pc'[r] = "enablePolicies" /\ flags' = flags /\ options'[r] = NoOptions
            BY <1>4, <2>1, <2>3 DEF EnableStores, Goes, Sets
        <3>2. flags[r].stores = FALSE /\ (flags[r].stores /\ flags[r].certs) = FALSE
            BY <1>0, <2>3 DEF Flags
        <3>3. OptionsAt("enablePolicies", flags[r]) = NoOptions
            BY <3>2 DEF OptionsAt, NoOptions, Begun
        <3> QED
            BY <1>4, <2>1, <3>1, <3>3 DEF EnableStores, OptionsInvOf
    <2> QED
        BY <2>2, <2>3
<1>5. CASE LoadTLS(r)
    <2>1. /\ options[r] = OptionsAt("loadTLS", flags[r]) /\ flags[r].stores
          /\ registered[r] = 1 .. next[r] - 1 /\ next[r] = 1 /\ seen[r] = {}
        BY <1>5 DEF LoadTLS, Goes, OptionsInvOf
    <2>2. (flags[r].stores /\ flags[r].certs) = flags[r].certs
        BY <1>0, <2>1 DEF Flags
    <2>3. options[r] = Opts(flags[r].stores, flags[r].stores, FALSE, FALSE)
        BY <2>1 DEF OptionsAt, Begun
    <2>4. /\ options[r].gvk = flags[r].stores /\ options[r].essOptions = flags[r].stores
          /\ options[r].policies = FALSE
        BY <2>3 DEF Opts
    <2>5. Opts(options[r].gvk, options[r].essOptions, flags[r].certs, options[r].policies)
          = OptionsAt("createStore", flags[r])
        BY <2>2, <2>4 DEF OptionsAt, Begun
    <2>6. pc'[r] = "createStore" /\ options'[r] = OptionsAt("createStore", flags[r])
        BY <1>5, <2>5 DEF LoadTLS, Goes, Sets
    <2> QED
        BY <1>5, <2>1, <2>6 DEF LoadTLS, OptionsInvOf
<1>6. CASE CreateStore(r)
    <2>1. OptionsAt("createStore", flags[r]) = OptionsAt("enablePolicies", flags[r])
        BY DEF OptionsAt, Begun
    <2> QED
        BY <1>6, <2>1 DEF CreateStore, Goes, OptionsInvOf
<1>7. CASE EnablePolicies(r)
    <2>1. /\ options[r] = OptionsAt("enablePolicies", flags[r])
          /\ registered[r] = 1 .. next[r] - 1 /\ next[r] = 1 /\ seen[r] = {}
        BY <1>7 DEF EnablePolicies, Goes, OptionsInvOf
    <2>2. Opts(options[r].gvk, options[r].essOptions, options[r].tls, flags[r].policies)
          = OptionsAt("setup", flags[r])
        <3>1. options[r] = Opts(flags[r].stores, flags[r].stores, flags[r].stores /\ flags[r].certs, FALSE)
            BY <2>1 DEF OptionsAt, Begun
        <3>2. /\ options[r].gvk = flags[r].stores /\ options[r].essOptions = flags[r].stores
              /\ options[r].tls = (flags[r].stores /\ flags[r].certs)
            BY <3>1 DEF Opts
        <3> QED
            BY <3>2 DEF OptionsAt, Begun, Final
    <2>3. pc'[r] = "setup" /\ options'[r] = OptionsAt("setup", flags[r])
        BY <1>7, <2>2 DEF EnablePolicies, Goes, Sets
    <2> QED
        BY <1>7, <2>1, <2>3 DEF EnablePolicies, OptionsInvOf
<1>8. CASE SetupController(r)
    <2>1. pc[r] = "setup" /\ options[r] = Final(flags[r])
        BY <1>8 DEF SetupController, OptionsInvOf, OptionsAt, Begun
    <2>2. options[r].gvk = options[r].essOptions
        BY <2>1 DEF Final, Opts
    <2>3. /\ next'[r] = next[r] + 1 /\ registered'[r] = registered[r] \cup {next[r]}
          /\ seen'[r] = seen[r] \cup {options[r]} /\ pc' = pc /\ options' = options /\ flags' = flags
        BY <1>8, <2>2 DEF SetupController
    <2>4. registered'[r] = 1 .. next'[r] - 1
        BY <1>0, <2>1, <2>3 DEF OptionsInvOf
    <2>5. seen'[r] = {options[r]} /\ next'[r] # 1
        BY <1>0, <2>1, <2>3 DEF OptionsInvOf
    <2> QED
        BY <2>1, <2>3, <2>4, <2>5 DEF OptionsInvOf
<1>9. CASE Start(r)
    <2>1. OptionsAt("setup", flags[r]) = OptionsAt("running", flags[r])
        BY DEF OptionsAt, Begun
    <2>2. next[r] = ControllerCount + 1
        BY <1>9 DEF Start
    <2> QED
        BY <1>9, <2>1, <2>2 DEF Start, Goes, OptionsInvOf
<1>10. CASE Fail(r)
    BY <1>10 DEF Fail, OptionsInvOf
<1> QED
    BY <1>2, <1>3, <1>4, <1>5, <1>6, <1>7, <1>8, <1>9, <1>10 DEF Steps

\* Every step keeps the invariant: a replica's step disturbs no other replica.
LEMMA OptionsStep == TypeOK /\ OptionsInv /\ [Next]_vars => OptionsInv'
<1> SUFFICES ASSUME TypeOK, OptionsInv, [Next]_vars, NEW q \in Replicas PROVE OptionsInvOf(q)'
    BY DEF OptionsInv
<1> USE DEF OptionsInv
<1>1. CASE EditStore
    BY <1>1, Undisturbed DEF EditStore, own
<1>2. ASSUME NEW r \in Replicas, Steps(r) \/ Fail(r) PROVE OptionsInvOf(q)'
    <2>1. CASE q = r
        BY <1>2, <2>1, OptionsStepOf
    <2>2. CASE q # r
        <3>1. /\ pc'[q] = pc[q] /\ options'[q] = options[q] /\ next'[q] = next[q]
              /\ registered'[q] = registered[q] /\ seen'[q] = seen[q] /\ flags' = flags
            BY <1>2, <2>2 DEF TypeOK, Steps, Launch, Connect, EnableStores, LoadTLS, CreateStore,
                EnablePolicies, SetupController, Start, Fail, Goes, Sets
        <3> QED
            BY <3>1, Undisturbed
    <2> QED
        BY <2>1, <2>2
<1>3. CASE UNCHANGED vars
    BY <1>3, Undisturbed DEF vars, own
<1> QED
    BY <1>1, <1>2, <1>3 DEF Next

\* The invariant of the run "provider" holds for any number of controllers and replicas.
THEOREM OptionsHold == Spec => []OptionsInv
<1>1. Init /\ [][Next]_vars => [](TypeOK /\ OptionsInv)
    BY TypeInit, TypeStep, OptionsInit, OptionsStep, PTL
<1> QED
    BY <1>1, PTL DEF Spec

\* A process that works has every controller, set up with the options it was told.
THEOREM RunningIsComplete == Spec => []RunsComplete
<1>1. TypeOK /\ OptionsInv => RunsComplete
    <2> SUFFICES ASSUME TypeOK, OptionsInv, NEW r \in Replicas, pc[r] = "running"
                 PROVE  registered[r] = 1 .. ControllerCount /\ seen[r] = {Final(flags[r])}
        BY DEF RunsComplete
    <2>1. next[r] = ControllerCount + 1 /\ options[r] = Final(flags[r])
        BY DEF OptionsInv, OptionsInvOf, OptionsAt, Begun
    <2>2. registered[r] = 1 .. next[r] - 1 /\ seen[r] = IF next[r] = 1 THEN {} ELSE {options[r]}
        BY DEF OptionsInv, OptionsInvOf
    <2>3. next[r] - 1 = ControllerCount /\ next[r] # 1
        BY <2>1, CountAssumption
    <2> QED
        BY <2>1, <2>2, <2>3
<1> QED
    BY <1>1, TypeCorrect, OptionsHold, PTL

\* No start writes a StoreConfig that is there: only a missing one is created.
THEOREM StoreStays == Spec => StoreIsKept
<1> DEFINE Kept == store # NoStore /\ edits' = edits => store' = store
<1>1. TypeOK /\ [Next]_vars => Kept
    <2> SUFFICES ASSUME TypeOK, [Next]_vars, store # NoStore, edits' = edits PROVE store' = store
        OBVIOUS
    <2>1. ASSUME EditStore PROVE FALSE
        BY <2>1 DEF EditStore, TypeOK
    <2>2. ASSUME NEW r \in Replicas, Steps(r) \/ Fail(r) PROVE store' = store
        BY <2>2 DEF Steps, Launch, Connect, EnableStores, LoadTLS, CreateStore, EnablePolicies,
                    SetupController, Start, Fail
    <2>3. CASE UNCHANGED vars
        BY <2>3 DEF vars
    <2> QED
        BY <2>1, <2>2, <2>3 DEF Next
<1>2. Init /\ [][Next]_vars => [][Kept]_vars
    <2>1. [Next]_vars /\ TypeOK => [Kept]_vars
        BY <1>1
    <2> QED
        BY TypeInit, TypeStep, <2>1, PTL
<1> QED
    BY <1>2, PTL DEF Spec, StoreIsKept

---------------------------------------------------------------------------
\* What is served: the tables of Controllers.

\* The controllers controller.Setup registers.
AllControllers == {
    AclRoleController, AclRuleController,
    AclUserController, ActivePrivateServiceConnectController,
    ActivePrivateServiceConnectEndpointController, ActivePrivateServiceConnectEndpointAccepterController,
    ActiveSubscriptionController, ActiveSubscriptionDatabaseController,
    ActiveSubscriptionPeeringController, ActiveSubscriptionRegionsController,
    ActiveTransitGatewayAttachmentController, CloudAccountController,
    EssentialsDatabaseController, EssentialsSubscriptionController,
    PrivateServiceConnectController, PrivateServiceConnectEndpointController,
    PrivateServiceConnectEndpointAccepterController, ProviderConfigController,
    RediscloudSubscriptionController, SubscriptionDatabaseController,
    SubscriptionPeeringController, TransitGatewayAttachmentController}

\* There are 22 places in the order, one for each.
LEMMA OrderIsComplete ==
    /\ Len(SetupOrder) = 22
    /\ {SetupOrder[i] : i \in 1 .. 22} = AllControllers
<1>1. Len(SetupOrder) = 22
    BY DEF SetupOrder
<1>2. /\ SetupOrder[1] = AclRoleController
      /\ SetupOrder[2] = AclRuleController
      /\ SetupOrder[3] = AclUserController
      /\ SetupOrder[4] = ActivePrivateServiceConnectController
      /\ SetupOrder[5] = ActivePrivateServiceConnectEndpointController
      /\ SetupOrder[6] = ActivePrivateServiceConnectEndpointAccepterController
      /\ SetupOrder[7] = ActiveSubscriptionController
      /\ SetupOrder[8] = ActiveSubscriptionDatabaseController
      /\ SetupOrder[9] = ActiveSubscriptionPeeringController
      /\ SetupOrder[10] = ActiveSubscriptionRegionsController
      /\ SetupOrder[11] = ActiveTransitGatewayAttachmentController
      /\ SetupOrder[12] = CloudAccountController
      /\ SetupOrder[13] = EssentialsDatabaseController
      /\ SetupOrder[14] = EssentialsSubscriptionController
      /\ SetupOrder[15] = PrivateServiceConnectController
      /\ SetupOrder[16] = PrivateServiceConnectEndpointController
      /\ SetupOrder[17] = PrivateServiceConnectEndpointAccepterController
      /\ SetupOrder[18] = ProviderConfigController
      /\ SetupOrder[19] = RediscloudSubscriptionController
      /\ SetupOrder[20] = SubscriptionDatabaseController
      /\ SetupOrder[21] = SubscriptionPeeringController
      /\ SetupOrder[22] = TransitGatewayAttachmentController
    BY DEF SetupOrder
<1>3. \A i \in 1 .. 22 : SetupOrder[i] \in AllControllers
    BY <1>2 DEF AllControllers
<1>4. \A c \in AllControllers : \E i \in 1 .. 22 : SetupOrder[i] = c
    BY <1>2 DEF AllControllers
<1> QED
    BY <1>1, <1>3, <1>4

\* The fields of each.
LEMMA ResourcesOfControllers ==
    /\ AclRoleController.resource = "rediscloud_acl_role"
    /\ AclRuleController.resource = "rediscloud_acl_rule"
    /\ AclUserController.resource = "rediscloud_acl_user"
    /\ ActivePrivateServiceConnectController.resource = "rediscloud_active_active_private_service_connect"
    /\ ActivePrivateServiceConnectEndpointController.resource = "rediscloud_active_active_private_service_connect_endpoint"
    /\ ActivePrivateServiceConnectEndpointAccepterController.resource = "rediscloud_active_active_private_service_connect_endpoint_accepter"
    /\ ActiveSubscriptionController.resource = "rediscloud_active_active_subscription"
    /\ ActiveSubscriptionDatabaseController.resource = "rediscloud_active_active_subscription_database"
    /\ ActiveSubscriptionPeeringController.resource = "rediscloud_active_active_subscription_peering"
    /\ ActiveSubscriptionRegionsController.resource = "rediscloud_active_active_subscription_regions"
    /\ ActiveTransitGatewayAttachmentController.resource = "rediscloud_active_active_transit_gateway_attachment"
    /\ CloudAccountController.resource = "rediscloud_cloud_account"
    /\ EssentialsDatabaseController.resource = "rediscloud_essentials_database"
    /\ EssentialsSubscriptionController.resource = "rediscloud_essentials_subscription"
    /\ PrivateServiceConnectController.resource = "rediscloud_private_service_connect"
    /\ PrivateServiceConnectEndpointController.resource = "rediscloud_private_service_connect_endpoint"
    /\ PrivateServiceConnectEndpointAccepterController.resource = "rediscloud_private_service_connect_endpoint_accepter"
    /\ ProviderConfigController.resource = NoResource
    /\ RediscloudSubscriptionController.resource = "rediscloud_subscription"
    /\ SubscriptionDatabaseController.resource = "rediscloud_subscription_database"
    /\ SubscriptionPeeringController.resource = "rediscloud_subscription_peering"
    /\ TransitGatewayAttachmentController.resource = "rediscloud_transit_gateway_attachment"
BY DEF Controller,
       AclRoleController,
       AclRuleController,
       AclUserController,
       ActivePrivateServiceConnectController,
       ActivePrivateServiceConnectEndpointController,
       ActivePrivateServiceConnectEndpointAccepterController,
       ActiveSubscriptionController,
       ActiveSubscriptionDatabaseController,
       ActiveSubscriptionPeeringController,
       ActiveSubscriptionRegionsController,
       ActiveTransitGatewayAttachmentController,
       CloudAccountController,
       EssentialsDatabaseController,
       EssentialsSubscriptionController,
       PrivateServiceConnectController,
       PrivateServiceConnectEndpointController,
       PrivateServiceConnectEndpointAccepterController,
       ProviderConfigController,
       RediscloudSubscriptionController,
       SubscriptionDatabaseController,
       SubscriptionPeeringController,
       TransitGatewayAttachmentController

LEMMA NamesOfControllers ==
    /\ AclRoleController.name = "Role"
    /\ AclRuleController.name = "Rule"
    /\ AclUserController.name = "User"
    /\ ActivePrivateServiceConnectController.name = "ActivePrivateServiceConnect"
    /\ ActivePrivateServiceConnectEndpointController.name = "ActivePrivateServiceConnectEndpoint"
    /\ ActivePrivateServiceConnectEndpointAccepterController.name = "ActivePrivateServiceConnectEndpointAccepter"
    /\ ActiveSubscriptionController.name = "ActiveSubscription"
    /\ ActiveSubscriptionDatabaseController.name = "ActiveSubscriptionDatabase"
    /\ ActiveSubscriptionPeeringController.name = "ActiveSubscriptionPeering"
    /\ ActiveSubscriptionRegionsController.name = "ActiveSubscriptionRegions"
    /\ ActiveTransitGatewayAttachmentController.name = "ActiveTransitGatewayAttachment"
    /\ CloudAccountController.name = "Account"
    /\ EssentialsDatabaseController.name = "Database"
    /\ EssentialsSubscriptionController.name = "Subscription"
    /\ PrivateServiceConnectController.name = "ServiceConnect"
    /\ PrivateServiceConnectEndpointController.name = "ServiceConnectEndpoint"
    /\ PrivateServiceConnectEndpointAccepterController.name = "ServiceConnectEndpointAccepter"
    /\ ProviderConfigController.name = "ProviderConfig"
    /\ RediscloudSubscriptionController.name = "Subscription"
    /\ SubscriptionDatabaseController.name = "Database"
    /\ SubscriptionPeeringController.name = "Peering"
    /\ TransitGatewayAttachmentController.name = "GatewayAttachment"
BY DEF Controller,
       AclRoleController,
       AclRuleController,
       AclUserController,
       ActivePrivateServiceConnectController,
       ActivePrivateServiceConnectEndpointController,
       ActivePrivateServiceConnectEndpointAccepterController,
       ActiveSubscriptionController,
       ActiveSubscriptionDatabaseController,
       ActiveSubscriptionPeeringController,
       ActiveSubscriptionRegionsController,
       ActiveTransitGatewayAttachmentController,
       CloudAccountController,
       EssentialsDatabaseController,
       EssentialsSubscriptionController,
       PrivateServiceConnectController,
       PrivateServiceConnectEndpointController,
       PrivateServiceConnectEndpointAccepterController,
       ProviderConfigController,
       RediscloudSubscriptionController,
       SubscriptionDatabaseController,
       SubscriptionPeeringController,
       TransitGatewayAttachmentController

LEMMA GroupsOfControllers ==
    /\ AclRoleController.group = "acl"
    /\ AclRuleController.group = "acl"
    /\ AclUserController.group = "acl"
    /\ ActivePrivateServiceConnectController.group = "active"
    /\ ActivePrivateServiceConnectEndpointController.group = "active"
    /\ ActivePrivateServiceConnectEndpointAccepterController.group = "active"
    /\ ActiveSubscriptionController.group = "active"
    /\ ActiveSubscriptionDatabaseController.group = "active"
    /\ ActiveSubscriptionPeeringController.group = "active"
    /\ ActiveSubscriptionRegionsController.group = "active"
    /\ ActiveTransitGatewayAttachmentController.group = "active"
    /\ CloudAccountController.group = "cloud"
    /\ EssentialsDatabaseController.group = "essentials"
    /\ EssentialsSubscriptionController.group = "essentials"
    /\ PrivateServiceConnectController.group = "private"
    /\ PrivateServiceConnectEndpointController.group = "private"
    /\ PrivateServiceConnectEndpointAccepterController.group = "private"
    /\ ProviderConfigController.group = ""
    /\ RediscloudSubscriptionController.group = "rediscloud"
    /\ SubscriptionDatabaseController.group = "subscription"
    /\ SubscriptionPeeringController.group = "subscription"
    /\ TransitGatewayAttachmentController.group = "transit"
BY DEF Controller,
       AclRoleController,
       AclRuleController,
       AclUserController,
       ActivePrivateServiceConnectController,
       ActivePrivateServiceConnectEndpointController,
       ActivePrivateServiceConnectEndpointAccepterController,
       ActiveSubscriptionController,
       ActiveSubscriptionDatabaseController,
       ActiveSubscriptionPeeringController,
       ActiveSubscriptionRegionsController,
       ActiveTransitGatewayAttachmentController,
       CloudAccountController,
       EssentialsDatabaseController,
       EssentialsSubscriptionController,
       PrivateServiceConnectController,
       PrivateServiceConnectEndpointController,
       PrivateServiceConnectEndpointAccepterController,
       ProviderConfigController,
       RediscloudSubscriptionController,
       SubscriptionDatabaseController,
       SubscriptionPeeringController,
       TransitGatewayAttachmentController

\* Kind k is served by controller c alone, with the resource of its own that the provider
\* configuration has and no other controller runs.
ServedBy(k, c) ==
    /\ c \in AllControllers
    /\ \A d \in AllControllers : Serves(d, k) <=> d = c
    /\ c.resource = TerraformedKinds[k].type
    /\ c.resource \in Resources
    /\ \A d \in AllControllers : d.resource = c.resource <=> d = c

LEMMA AclRoleServed == ServedBy("AclRole", AclRoleController)
<1>1. Kinds["AclRole"].group = "acl" /\ Kinds["AclRole"].name = "Role"
    BY DEF Kinds, AclRoleKind, Kind
<1>2. TerraformedKinds["AclRole"].type = "rediscloud_acl_role"
    BY DEF TerraformedKinds, AclRoleTerraformed, Terraformed
<1>3. "rediscloud_acl_role" \in Resources
    BY DEF Resources, ExternalNameConfigs, TerraformRequires
<1>4. \A d \in AllControllers : d.name = "Role" <=> d \in {AclRoleController}
    BY NamesOfControllers DEF AllControllers
<1>5. \A d \in {AclRoleController} : d.group = "acl" <=> d = AclRoleController
    BY GroupsOfControllers
<1>6. AclRoleController.resource = "rediscloud_acl_role"
    BY ResourcesOfControllers
<1>7. \A d \in AllControllers : d.resource = "rediscloud_acl_role" <=> d = AclRoleController
    BY ResourcesOfControllers DEF AllControllers, NoResource
<1>8. \A d \in AllControllers : Serves(d, "AclRole") <=> d = AclRoleController
    BY <1>1, <1>4, <1>5 DEF Serves
<1>9. AclRoleController \in AllControllers
    BY DEF AllControllers
<1> QED
    BY <1>2, <1>3, <1>6, <1>7, <1>8, <1>9 DEF ServedBy

LEMMA AclRuleServed == ServedBy("AclRule", AclRuleController)
<1>1. Kinds["AclRule"].group = "acl" /\ Kinds["AclRule"].name = "Rule"
    BY DEF Kinds, AclRuleKind, Kind
<1>2. TerraformedKinds["AclRule"].type = "rediscloud_acl_rule"
    BY DEF TerraformedKinds, AclRuleTerraformed, Terraformed
<1>3. "rediscloud_acl_rule" \in Resources
    BY DEF Resources, ExternalNameConfigs, TerraformRequires
<1>4. \A d \in AllControllers : d.name = "Rule" <=> d \in {AclRuleController}
    BY NamesOfControllers DEF AllControllers
<1>5. \A d \in {AclRuleController} : d.group = "acl" <=> d = AclRuleController
    BY GroupsOfControllers
<1>6. AclRuleController.resource = "rediscloud_acl_rule"
    BY ResourcesOfControllers
<1>7. \A d \in AllControllers : d.resource = "rediscloud_acl_rule" <=> d = AclRuleController
    BY ResourcesOfControllers DEF AllControllers, NoResource
<1>8. \A d \in AllControllers : Serves(d, "AclRule") <=> d = AclRuleController
    BY <1>1, <1>4, <1>5 DEF Serves
<1>9. AclRuleController \in AllControllers
    BY DEF AllControllers
<1> QED
    BY <1>2, <1>3, <1>6, <1>7, <1>8, <1>9 DEF ServedBy

LEMMA AclUserServed == ServedBy("AclUser", AclUserController)
<1>1. Kinds["AclUser"].group = "acl" /\ Kinds["AclUser"].name = "User"
    BY DEF Kinds, AclUserKind, Kind
<1>2. TerraformedKinds["AclUser"].type = "rediscloud_acl_user"
    BY DEF TerraformedKinds, AclUserTerraformed, Terraformed
<1>3. "rediscloud_acl_user" \in Resources
    BY DEF Resources, ExternalNameConfigs, TerraformRequires
<1>4. \A d \in AllControllers : d.name = "User" <=> d \in {AclUserController}
    BY NamesOfControllers DEF AllControllers
<1>5. \A d \in {AclUserController} : d.group = "acl" <=> d = AclUserController
    BY GroupsOfControllers
<1>6. AclUserController.resource = "rediscloud_acl_user"
    BY ResourcesOfControllers
<1>7. \A d \in AllControllers : d.resource = "rediscloud_acl_user" <=> d = AclUserController
    BY ResourcesOfControllers DEF AllControllers, NoResource
<1>8. \A d \in AllControllers : Serves(d, "AclUser") <=> d = AclUserController
    BY <1>1, <1>4, <1>5 DEF Serves
<1>9. AclUserController \in AllControllers
    BY DEF AllControllers
<1> QED
    BY <1>2, <1>3, <1>6, <1>7, <1>8, <1>9 DEF ServedBy

LEMMA ActivePrivateServiceConnectServed == ServedBy("ActivePrivateServiceConnect", ActivePrivateServiceConnectController)
<1>1. Kinds["ActivePrivateServiceConnect"].group = "active" /\ Kinds["ActivePrivateServiceConnect"].name = "ActivePrivateServiceConnect"
    BY DEF Kinds, ActivePrivateServiceConnectKind, Kind
<1>2. TerraformedKinds["ActivePrivateServiceConnect"].type = "rediscloud_active_active_private_service_connect"
    BY DEF TerraformedKinds, ActivePrivateServiceConnectTerraformed, Terraformed
<1>3. "rediscloud_active_active_private_service_connect" \in Resources
    BY DEF Resources, ExternalNameConfigs, TerraformRequires
<1>4. \A d \in AllControllers : d.name = "ActivePrivateServiceConnect" <=> d \in {ActivePrivateServiceConnectController}
    BY NamesOfControllers DEF AllControllers
<1>5. \A d \in {ActivePrivateServiceConnectController} : d.group = "active" <=> d = ActivePrivateServiceConnectController
    BY GroupsOfControllers
<1>6. ActivePrivateServiceConnectController.resource = "rediscloud_active_active_private_service_connect"
    BY ResourcesOfControllers
<1>7. \A d \in AllControllers : d.resource = "rediscloud_active_active_private_service_connect" <=> d = ActivePrivateServiceConnectController
    BY ResourcesOfControllers DEF AllControllers, NoResource
<1>8. \A d \in AllControllers : Serves(d, "ActivePrivateServiceConnect") <=> d = ActivePrivateServiceConnectController
    BY <1>1, <1>4, <1>5 DEF Serves
<1>9. ActivePrivateServiceConnectController \in AllControllers
    BY DEF AllControllers
<1> QED
    BY <1>2, <1>3, <1>6, <1>7, <1>8, <1>9 DEF ServedBy

LEMMA ActivePrivateServiceConnectEndpointServed == ServedBy("ActivePrivateServiceConnectEndpoint", ActivePrivateServiceConnectEndpointController)
<1>1. Kinds["ActivePrivateServiceConnectEndpoint"].group = "active" /\ Kinds["ActivePrivateServiceConnectEndpoint"].name = "ActivePrivateServiceConnectEndpoint"
    BY DEF Kinds, ActivePrivateServiceConnectEndpointKind, Kind
<1>2. TerraformedKinds["ActivePrivateServiceConnectEndpoint"].type = "rediscloud_active_active_private_service_connect_endpoint"
    BY DEF TerraformedKinds, ActivePrivateServiceConnectEndpointTerraformed, Terraformed
<1>3. "rediscloud_active_active_private_service_connect_endpoint" \in Resources
    BY DEF Resources, ExternalNameConfigs, TerraformRequires
<1>4. \A d \in AllControllers : d.name = "ActivePrivateServiceConnectEndpoint" <=> d \in {ActivePrivateServiceConnectEndpointController}
    BY NamesOfControllers DEF AllControllers
<1>5. \A d \in {ActivePrivateServiceConnectEndpointController} : d.group = "active" <=> d = ActivePrivateServiceConnectEndpointController
    BY GroupsOfControllers
<1>6. ActivePrivateServiceConnectEndpointController.resource = "rediscloud_active_active_private_service_connect_endpoint"
    BY ResourcesOfControllers
<1>7. \A d \in AllControllers : d.resource = "rediscloud_active_active_private_service_connect_endpoint" <=> d = ActivePrivateServiceConnectEndpointController
    BY ResourcesOfControllers DEF AllControllers, NoResource
<1>8. \A d \in AllControllers : Serves(d, "ActivePrivateServiceConnectEndpoint") <=> d = ActivePrivateServiceConnectEndpointController
    BY <1>1, <1>4, <1>5 DEF Serves
<1>9. ActivePrivateServiceConnectEndpointController \in AllControllers
    BY DEF AllControllers
<1> QED
    BY <1>2, <1>3, <1>6, <1>7, <1>8, <1>9 DEF ServedBy

LEMMA ActivePrivateServiceConnectEndpointAccepterServed == ServedBy("ActivePrivateServiceConnectEndpointAccepter", ActivePrivateServiceConnectEndpointAccepterController)
<1>1. Kinds["ActivePrivateServiceConnectEndpointAccepter"].group = "active" /\ Kinds["ActivePrivateServiceConnectEndpointAccepter"].name = "ActivePrivateServiceConnectEndpointAccepter"
    BY DEF Kinds, ActivePrivateServiceConnectEndpointAccepterKind, Kind
<1>2. TerraformedKinds["ActivePrivateServiceConnectEndpointAccepter"].type = "rediscloud_active_active_private_service_connect_endpoint_accepter"
    BY DEF TerraformedKinds, ActivePrivateServiceConnectEndpointAccepterTerraformed, Terraformed
<1>3. "rediscloud_active_active_private_service_connect_endpoint_accepter" \in Resources
    BY DEF Resources, ExternalNameConfigs, TerraformRequires
<1>4. \A d \in AllControllers : d.name = "ActivePrivateServiceConnectEndpointAccepter" <=> d \in {ActivePrivateServiceConnectEndpointAccepterController}
    BY NamesOfControllers DEF AllControllers
<1>5. \A d \in {ActivePrivateServiceConnectEndpointAccepterController} : d.group = "active" <=> d = ActivePrivateServiceConnectEndpointAccepterController
    BY GroupsOfControllers
<1>6. ActivePrivateServiceConnectEndpointAccepterController.resource = "rediscloud_active_active_private_service_connect_endpoint_accepter"
    BY ResourcesOfControllers
<1>7. \A d \in AllControllers : d.resource = "rediscloud_active_active_private_service_connect_endpoint_accepter" <=> d = ActivePrivateServiceConnectEndpointAccepterController
    BY ResourcesOfControllers DEF AllControllers, NoResource
<1>8. \A d \in AllControllers : Serves(d, "ActivePrivateServiceConnectEndpointAccepter") <=> d = ActivePrivateServiceConnectEndpointAccepterController
    BY <1>1, <1>4, <1>5 DEF Serves
<1>9. ActivePrivateServiceConnectEndpointAccepterController \in AllControllers
    BY DEF AllControllers
<1> QED
    BY <1>2, <1>3, <1>6, <1>7, <1>8, <1>9 DEF ServedBy

LEMMA ActiveSubscriptionServed == ServedBy("ActiveSubscription", ActiveSubscriptionController)
<1>1. Kinds["ActiveSubscription"].group = "active" /\ Kinds["ActiveSubscription"].name = "ActiveSubscription"
    BY DEF Kinds, ActiveSubscriptionKind, Kind
<1>2. TerraformedKinds["ActiveSubscription"].type = "rediscloud_active_active_subscription"
    BY DEF TerraformedKinds, ActiveSubscriptionTerraformed, Terraformed
<1>3. "rediscloud_active_active_subscription" \in Resources
    BY DEF Resources, ExternalNameConfigs, TerraformRequires
<1>4. \A d \in AllControllers : d.name = "ActiveSubscription" <=> d \in {ActiveSubscriptionController}
    BY NamesOfControllers DEF AllControllers
<1>5. \A d \in {ActiveSubscriptionController} : d.group = "active" <=> d = ActiveSubscriptionController
    BY GroupsOfControllers
<1>6. ActiveSubscriptionController.resource = "rediscloud_active_active_subscription"
    BY ResourcesOfControllers
<1>7. \A d \in AllControllers : d.resource = "rediscloud_active_active_subscription" <=> d = ActiveSubscriptionController
    BY ResourcesOfControllers DEF AllControllers, NoResource
<1>8. \A d \in AllControllers : Serves(d, "ActiveSubscription") <=> d = ActiveSubscriptionController
    BY <1>1, <1>4, <1>5 DEF Serves
<1>9. ActiveSubscriptionController \in AllControllers
    BY DEF AllControllers
<1> QED
    BY <1>2, <1>3, <1>6, <1>7, <1>8, <1>9 DEF ServedBy

LEMMA ActiveSubscriptionDatabaseServed == ServedBy("ActiveSubscriptionDatabase", ActiveSubscriptionDatabaseController)
<1>1. Kinds["ActiveSubscriptionDatabase"].group = "active" /\ Kinds["ActiveSubscriptionDatabase"].name = "ActiveSubscriptionDatabase"
    BY DEF Kinds, ActiveSubscriptionDatabaseKind, Kind
<1>2. TerraformedKinds["ActiveSubscriptionDatabase"].type = "rediscloud_active_active_subscription_database"
    BY DEF TerraformedKinds, ActiveSubscriptionDatabaseTerraformed, Terraformed
<1>3. "rediscloud_active_active_subscription_database" \in Resources
    BY DEF Resources, ExternalNameConfigs, TerraformRequires
<1>4. \A d \in AllControllers : d.name = "ActiveSubscriptionDatabase" <=> d \in {ActiveSubscriptionDatabaseController}
    BY NamesOfControllers DEF AllControllers
<1>5. \A d \in {ActiveSubscriptionDatabaseController} : d.group = "active" <=> d = ActiveSubscriptionDatabaseController
    BY GroupsOfControllers
<1>6. ActiveSubscriptionDatabaseController.resource = "rediscloud_active_active_subscription_database"
    BY ResourcesOfControllers
<1>7. \A d \in AllControllers : d.resource = "rediscloud_active_active_subscription_database" <=> d = ActiveSubscriptionDatabaseController
    BY ResourcesOfControllers DEF AllControllers, NoResource
<1>8. \A d \in AllControllers : Serves(d, "ActiveSubscriptionDatabase") <=> d = ActiveSubscriptionDatabaseController
    BY <1>1, <1>4, <1>5 DEF Serves
<1>9. ActiveSubscriptionDatabaseController \in AllControllers
    BY DEF AllControllers
<1> QED
    BY <1>2, <1>3, <1>6, <1>7, <1>8, <1>9 DEF ServedBy

LEMMA ActiveSubscriptionPeeringServed == ServedBy("ActiveSubscriptionPeering", ActiveSubscriptionPeeringController)
<1>1. Kinds["ActiveSubscriptionPeering"].group = "active" /\ Kinds["ActiveSubscriptionPeering"].name = "ActiveSubscriptionPeering"
    BY DEF Kinds, ActiveSubscriptionPeeringKind, Kind
<1>2. TerraformedKinds["ActiveSubscriptionPeering"].type = "rediscloud_active_active_subscription_peering"
    BY DEF TerraformedKinds, ActiveSubscriptionPeeringTerraformed, Terraformed
<1>3. "rediscloud_active_active_subscription_peering" \in Resources
    BY DEF Resources, ExternalNameConfigs, TerraformRequires
<1>4. \A d \in AllControllers : d.name = "ActiveSubscriptionPeering" <=> d \in {ActiveSubscriptionPeeringController}
    BY NamesOfControllers DEF AllControllers
<1>5. \A d \in {ActiveSubscriptionPeeringController} : d.group = "active" <=> d = ActiveSubscriptionPeeringController
    BY GroupsOfControllers
<1>6. ActiveSubscriptionPeeringController.resource = "rediscloud_active_active_subscription_peering"
    BY ResourcesOfControllers
<1>7. \A d \in AllControllers : d.resource = "rediscloud_active_active_subscription_peering" <=> d = ActiveSubscriptionPeeringController
    BY ResourcesOfControllers DEF AllControllers, NoResource
<1>8. \A d \in AllControllers : Serves(d, "ActiveSubscriptionPeering") <=> d = ActiveSubscriptionPeeringController
    BY <1>1, <1>4, <1>5 DEF Serves
<1>9. ActiveSubscriptionPeeringController \in AllControllers
    BY DEF AllControllers
<1> QED
    BY <1>2, <1>3, <1>6, <1>7, <1>8, <1>9 DEF ServedBy

LEMMA ActiveSubscriptionRegionsServed == ServedBy("ActiveSubscriptionRegions", ActiveSubscriptionRegionsController)
<1>1. Kinds["ActiveSubscriptionRegions"].group = "active" /\ Kinds["ActiveSubscriptionRegions"].name = "ActiveSubscriptionRegions"
    BY DEF Kinds, ActiveSubscriptionRegionsKind, Kind
<1>2. TerraformedKinds["ActiveSubscriptionRegions"].type = "rediscloud_active_active_subscription_regions"
    BY DEF TerraformedKinds, ActiveSubscriptionRegionsTerraformed, Terraformed
<1>3. "rediscloud_active_active_subscription_regions" \in Resources
    BY DEF Resources, ExternalNameConfigs, TerraformRequires
<1>4. \A d \in AllControllers : d.name = "ActiveSubscriptionRegions" <=> d \in {ActiveSubscriptionRegionsController}
    BY NamesOfControllers DEF AllControllers
<1>5. \A d \in {ActiveSubscriptionRegionsController} : d.group = "active" <=> d = ActiveSubscriptionRegionsController
    BY GroupsOfControllers
<1>6. ActiveSubscriptionRegionsController.resource = "rediscloud_active_active_subscription_regions"
    BY ResourcesOfControllers
<1>7. \A d \in AllControllers : d.resource = "rediscloud_active_active_subscription_regions" <=> d = ActiveSubscriptionRegionsController
    BY ResourcesOfControllers DEF AllControllers, NoResource
<1>8. \A d \in AllControllers : Serves(d, "ActiveSubscriptionRegions") <=> d = ActiveSubscriptionRegionsController
    BY <1>1, <1>4, <1>5 DEF Serves
<1>9. ActiveSubscriptionRegionsController \in AllControllers
    BY DEF AllControllers
<1> QED
    BY <1>2, <1>3, <1>6, <1>7, <1>8, <1>9 DEF ServedBy

LEMMA ActiveTransitGatewayAttachmentServed == ServedBy("ActiveTransitGatewayAttachment", ActiveTransitGatewayAttachmentController)
<1>1. Kinds["ActiveTransitGatewayAttachment"].group = "active" /\ Kinds["ActiveTransitGatewayAttachment"].name = "ActiveTransitGatewayAttachment"
    BY DEF Kinds, ActiveTransitGatewayAttachmentKind, Kind
<1>2. TerraformedKinds["ActiveTransitGatewayAttachment"].type = "rediscloud_active_active_transit_gateway_attachment"
    BY DEF TerraformedKinds, ActiveTransitGatewayAttachmentTerraformed, Terraformed
<1>3. "rediscloud_active_active_transit_gateway_attachment" \in Resources
    BY DEF Resources, ExternalNameConfigs, TerraformRequires
<1>4. \A d \in AllControllers : d.name = "ActiveTransitGatewayAttachment" <=> d \in {ActiveTransitGatewayAttachmentController}
    BY NamesOfControllers DEF AllControllers
<1>5. \A d \in {ActiveTransitGatewayAttachmentController} : d.group = "active" <=> d = ActiveTransitGatewayAttachmentController
    BY GroupsOfControllers
<1>6. ActiveTransitGatewayAttachmentController.resource = "rediscloud_active_active_transit_gateway_attachment"
    BY ResourcesOfControllers
<1>7. \A d \in AllControllers : d.resource = "rediscloud_active_active_transit_gateway_attachment" <=> d = ActiveTransitGatewayAttachmentController
    BY ResourcesOfControllers DEF AllControllers, NoResource
<1>8. \A d \in AllControllers : Serves(d, "ActiveTransitGatewayAttachment") <=> d = ActiveTransitGatewayAttachmentController
    BY <1>1, <1>4, <1>5 DEF Serves
<1>9. ActiveTransitGatewayAttachmentController \in AllControllers
    BY DEF AllControllers
<1> QED
    BY <1>2, <1>3, <1>6, <1>7, <1>8, <1>9 DEF ServedBy

LEMMA CloudAccountServed == ServedBy("CloudAccount", CloudAccountController)
<1>1. Kinds["CloudAccount"].group = "cloud" /\ Kinds["CloudAccount"].name = "Account"
    BY DEF Kinds, CloudAccountKind, Kind
<1>2. TerraformedKinds["CloudAccount"].type = "rediscloud_cloud_account"
    BY DEF TerraformedKinds, CloudAccountTerraformed, Terraformed
<1>3. "rediscloud_cloud_account" \in Resources
    BY DEF Resources, ExternalNameConfigs, TerraformRequires
<1>4. \A d \in AllControllers : d.name = "Account" <=> d \in {CloudAccountController}
    BY NamesOfControllers DEF AllControllers
<1>5. \A d \in {CloudAccountController} : d.group = "cloud" <=> d = CloudAccountController
    BY GroupsOfControllers
<1>6. CloudAccountController.resource = "rediscloud_cloud_account"
    BY ResourcesOfControllers
<1>7. \A d \in AllControllers : d.resource = "rediscloud_cloud_account" <=> d = CloudAccountController
    BY ResourcesOfControllers DEF AllControllers, NoResource
<1>8. \A d \in AllControllers : Serves(d, "CloudAccount") <=> d = CloudAccountController
    BY <1>1, <1>4, <1>5 DEF Serves
<1>9. CloudAccountController \in AllControllers
    BY DEF AllControllers
<1> QED
    BY <1>2, <1>3, <1>6, <1>7, <1>8, <1>9 DEF ServedBy

LEMMA EssentialsDatabaseServed == ServedBy("EssentialsDatabase", EssentialsDatabaseController)
<1>1. Kinds["EssentialsDatabase"].group = "essentials" /\ Kinds["EssentialsDatabase"].name = "Database"
    BY DEF Kinds, EssentialsDatabaseKind, Kind
<1>2. TerraformedKinds["EssentialsDatabase"].type = "rediscloud_essentials_database"
    BY DEF TerraformedKinds, EssentialsDatabaseTerraformed, Terraformed
<1>3. "rediscloud_essentials_database" \in Resources
    BY DEF Resources, ExternalNameConfigs, TerraformRequires
<1>4. \A d \in AllControllers : d.name = "Database" <=> d \in {EssentialsDatabaseController, SubscriptionDatabaseController}
    BY NamesOfControllers DEF AllControllers
<1>5. \A d \in {EssentialsDatabaseController, SubscriptionDatabaseController} : d.group = "essentials" <=> d = EssentialsDatabaseController
    BY GroupsOfControllers
<1>6. EssentialsDatabaseController.resource = "rediscloud_essentials_database"
    BY ResourcesOfControllers
<1>7. \A d \in AllControllers : d.resource = "rediscloud_essentials_database" <=> d = EssentialsDatabaseController
    BY ResourcesOfControllers DEF AllControllers, NoResource
<1>8. \A d \in AllControllers : Serves(d, "EssentialsDatabase") <=> d = EssentialsDatabaseController
    BY <1>1, <1>4, <1>5 DEF Serves
<1>9. EssentialsDatabaseController \in AllControllers
    BY DEF AllControllers
<1> QED
    BY <1>2, <1>3, <1>6, <1>7, <1>8, <1>9 DEF ServedBy

LEMMA EssentialsSubscriptionServed == ServedBy("EssentialsSubscription", EssentialsSubscriptionController)
<1>1. Kinds["EssentialsSubscription"].group = "essentials" /\ Kinds["EssentialsSubscription"].name = "Subscription"
    BY DEF Kinds, EssentialsSubscriptionKind, Kind
<1>2. TerraformedKinds["EssentialsSubscription"].type = "rediscloud_essentials_subscription"
    BY DEF TerraformedKinds, EssentialsSubscriptionTerraformed, Terraformed
<1>3. "rediscloud_essentials_subscription" \in Resources
    BY DEF Resources, ExternalNameConfigs, TerraformRequires
<1>4. \A d \in AllControllers : d.name = "Subscription" <=> d \in {EssentialsSubscriptionController, RediscloudSubscriptionController}
    BY NamesOfControllers DEF AllControllers
<1>5. \A d \in {EssentialsSubscriptionController, RediscloudSubscriptionController} : d.group = "essentials" <=> d = EssentialsSubscriptionController
    BY GroupsOfControllers
<1>6. EssentialsSubscriptionController.resource = "rediscloud_essentials_subscription"
    BY ResourcesOfControllers
<1>7. \A d \in AllControllers : d.resource = "rediscloud_essentials_subscription" <=> d = EssentialsSubscriptionController
    BY ResourcesOfControllers DEF AllControllers, NoResource
<1>8. \A d \in AllControllers : Serves(d, "EssentialsSubscription") <=> d = EssentialsSubscriptionController
    BY <1>1, <1>4, <1>5 DEF Serves
<1>9. EssentialsSubscriptionController \in AllControllers
    BY DEF AllControllers
<1> QED
    BY <1>2, <1>3, <1>6, <1>7, <1>8, <1>9 DEF ServedBy

LEMMA PrivateServiceConnectServed == ServedBy("PrivateServiceConnect", PrivateServiceConnectController)
<1>1. Kinds["PrivateServiceConnect"].group = "private" /\ Kinds["PrivateServiceConnect"].name = "ServiceConnect"
    BY DEF Kinds, PrivateServiceConnectKind, Kind
<1>2. TerraformedKinds["PrivateServiceConnect"].type = "rediscloud_private_service_connect"
    BY DEF TerraformedKinds, PrivateServiceConnectTerraformed, Terraformed
<1>3. "rediscloud_private_service_connect" \in Resources
    BY DEF Resources, ExternalNameConfigs, TerraformRequires
<1>4. \A d \in AllControllers : d.name = "ServiceConnect" <=> d \in {PrivateServiceConnectController}
    BY NamesOfControllers DEF AllControllers
<1>5. \A d \in {PrivateServiceConnectController} : d.group = "private" <=> d = PrivateServiceConnectController
    BY GroupsOfControllers
<1>6. PrivateServiceConnectController.resource = "rediscloud_private_service_connect"
    BY ResourcesOfControllers
<1>7. \A d \in AllControllers : d.resource = "rediscloud_private_service_connect" <=> d = PrivateServiceConnectController
    BY ResourcesOfControllers DEF AllControllers, NoResource
<1>8. \A d \in AllControllers : Serves(d, "PrivateServiceConnect") <=> d = PrivateServiceConnectController
    BY <1>1, <1>4, <1>5 DEF Serves
<1>9. PrivateServiceConnectController \in AllControllers
    BY DEF AllControllers
<1> QED
    BY <1>2, <1>3, <1>6, <1>7, <1>8, <1>9 DEF ServedBy

LEMMA PrivateServiceConnectEndpointServed == ServedBy("PrivateServiceConnectEndpoint", PrivateServiceConnectEndpointController)
<1>1. Kinds["PrivateServiceConnectEndpoint"].group = "private" /\ Kinds["PrivateServiceConnectEndpoint"].name = "ServiceConnectEndpoint"
    BY DEF Kinds, PrivateServiceConnectEndpointKind, Kind
<1>2. TerraformedKinds["PrivateServiceConnectEndpoint"].type = "rediscloud_private_service_connect_endpoint"
    BY DEF TerraformedKinds, PrivateServiceConnectEndpointTerraformed, Terraformed
<1>3. "rediscloud_private_service_connect_endpoint" \in Resources
    BY DEF Resources, ExternalNameConfigs, TerraformRequires
<1>4. \A d \in AllControllers : d.name = "ServiceConnectEndpoint" <=> d \in {PrivateServiceConnectEndpointController}
    BY NamesOfControllers DEF AllControllers
<1>5. \A d \in {PrivateServiceConnectEndpointController} : d.group = "private" <=> d = PrivateServiceConnectEndpointController
    BY GroupsOfControllers
<1>6. PrivateServiceConnectEndpointController.resource = "rediscloud_private_service_connect_endpoint"
    BY ResourcesOfControllers
<1>7. \A d \in AllControllers : d.resource = "rediscloud_private_service_connect_endpoint" <=> d = PrivateServiceConnectEndpointController
    BY ResourcesOfControllers DEF AllControllers, NoResource
<1>8. \A d \in AllControllers : Serves(d, "PrivateServiceConnectEndpoint") <=> d = PrivateServiceConnectEndpointController
    BY <1>1, <1>4, <1>5 DEF Serves
<1>9. PrivateServiceConnectEndpointController \in AllControllers
    BY DEF AllControllers
<1> QED
    BY <1>2, <1>3, <1>6, <1>7, <1>8, <1>9 DEF ServedBy

LEMMA PrivateServiceConnectEndpointAccepterServed == ServedBy("PrivateServiceConnectEndpointAccepter", PrivateServiceConnectEndpointAccepterController)
<1>1. Kinds["PrivateServiceConnectEndpointAccepter"].group = "private" /\ Kinds["PrivateServiceConnectEndpointAccepter"].name = "ServiceConnectEndpointAccepter"
    BY DEF Kinds, PrivateServiceConnectEndpointAccepterKind, Kind
<1>2. TerraformedKinds["PrivateServiceConnectEndpointAccepter"].type = "rediscloud_private_service_connect_endpoint_accepter"
    BY DEF TerraformedKinds, PrivateServiceConnectEndpointAccepterTerraformed, Terraformed
<1>3. "rediscloud_private_service_connect_endpoint_accepter" \in Resources
    BY DEF Resources, ExternalNameConfigs, TerraformRequires
<1>4. \A d \in AllControllers : d.name = "ServiceConnectEndpointAccepter" <=> d \in {PrivateServiceConnectEndpointAccepterController}
    BY NamesOfControllers DEF AllControllers
<1>5. \A d \in {PrivateServiceConnectEndpointAccepterController} : d.group = "private" <=> d = PrivateServiceConnectEndpointAccepterController
    BY GroupsOfControllers
<1>6. PrivateServiceConnectEndpointAccepterController.resource = "rediscloud_private_service_connect_endpoint_accepter"
    BY ResourcesOfControllers
<1>7. \A d \in AllControllers : d.resource = "rediscloud_private_service_connect_endpoint_accepter" <=> d = PrivateServiceConnectEndpointAccepterController
    BY ResourcesOfControllers DEF AllControllers, NoResource
<1>8. \A d \in AllControllers : Serves(d, "PrivateServiceConnectEndpointAccepter") <=> d = PrivateServiceConnectEndpointAccepterController
    BY <1>1, <1>4, <1>5 DEF Serves
<1>9. PrivateServiceConnectEndpointAccepterController \in AllControllers
    BY DEF AllControllers
<1> QED
    BY <1>2, <1>3, <1>6, <1>7, <1>8, <1>9 DEF ServedBy

LEMMA RediscloudSubscriptionServed == ServedBy("RediscloudSubscription", RediscloudSubscriptionController)
<1>1. Kinds["RediscloudSubscription"].group = "rediscloud" /\ Kinds["RediscloudSubscription"].name = "Subscription"
    BY DEF Kinds, RediscloudSubscriptionKind, Kind
<1>2. TerraformedKinds["RediscloudSubscription"].type = "rediscloud_subscription"
    BY DEF TerraformedKinds, RediscloudSubscriptionTerraformed, Terraformed
<1>3. "rediscloud_subscription" \in Resources
    BY DEF Resources, ExternalNameConfigs, TerraformRequires
<1>4. \A d \in AllControllers : d.name = "Subscription" <=> d \in {EssentialsSubscriptionController, RediscloudSubscriptionController}
    BY NamesOfControllers DEF AllControllers
<1>5. \A d \in {EssentialsSubscriptionController, RediscloudSubscriptionController} : d.group = "rediscloud" <=> d = RediscloudSubscriptionController
    BY GroupsOfControllers
<1>6. RediscloudSubscriptionController.resource = "rediscloud_subscription"
    BY ResourcesOfControllers
<1>7. \A d \in AllControllers : d.resource = "rediscloud_subscription" <=> d = RediscloudSubscriptionController
    BY ResourcesOfControllers DEF AllControllers, NoResource
<1>8. \A d \in AllControllers : Serves(d, "RediscloudSubscription") <=> d = RediscloudSubscriptionController
    BY <1>1, <1>4, <1>5 DEF Serves
<1>9. RediscloudSubscriptionController \in AllControllers
    BY DEF AllControllers
<1> QED
    BY <1>2, <1>3, <1>6, <1>7, <1>8, <1>9 DEF ServedBy

LEMMA SubscriptionDatabaseServed == ServedBy("SubscriptionDatabase", SubscriptionDatabaseController)
<1>1. Kinds["SubscriptionDatabase"].group = "subscription" /\ Kinds["SubscriptionDatabase"].name = "Database"
    BY DEF Kinds, SubscriptionDatabaseKind, Kind
<1>2. TerraformedKinds["SubscriptionDatabase"].type = "rediscloud_subscription_database"
    BY DEF TerraformedKinds, SubscriptionDatabaseTerraformed, Terraformed
<1>3. "rediscloud_subscription_database" \in Resources
    BY DEF Resources, ExternalNameConfigs, TerraformRequires
<1>4. \A d \in AllControllers : d.name = "Database" <=> d \in {EssentialsDatabaseController, SubscriptionDatabaseController}
    BY NamesOfControllers DEF AllControllers
<1>5. \A d \in {EssentialsDatabaseController, SubscriptionDatabaseController} : d.group = "subscription" <=> d = SubscriptionDatabaseController
    BY GroupsOfControllers
<1>6. SubscriptionDatabaseController.resource = "rediscloud_subscription_database"
    BY ResourcesOfControllers
<1>7. \A d \in AllControllers : d.resource = "rediscloud_subscription_database" <=> d = SubscriptionDatabaseController
    BY ResourcesOfControllers DEF AllControllers, NoResource
<1>8. \A d \in AllControllers : Serves(d, "SubscriptionDatabase") <=> d = SubscriptionDatabaseController
    BY <1>1, <1>4, <1>5 DEF Serves
<1>9. SubscriptionDatabaseController \in AllControllers
    BY DEF AllControllers
<1> QED
    BY <1>2, <1>3, <1>6, <1>7, <1>8, <1>9 DEF ServedBy

LEMMA SubscriptionPeeringServed == ServedBy("SubscriptionPeering", SubscriptionPeeringController)
<1>1. Kinds["SubscriptionPeering"].group = "subscription" /\ Kinds["SubscriptionPeering"].name = "Peering"
    BY DEF Kinds, SubscriptionPeeringKind, Kind
<1>2. TerraformedKinds["SubscriptionPeering"].type = "rediscloud_subscription_peering"
    BY DEF TerraformedKinds, SubscriptionPeeringTerraformed, Terraformed
<1>3. "rediscloud_subscription_peering" \in Resources
    BY DEF Resources, ExternalNameConfigs, TerraformRequires
<1>4. \A d \in AllControllers : d.name = "Peering" <=> d \in {SubscriptionPeeringController}
    BY NamesOfControllers DEF AllControllers
<1>5. \A d \in {SubscriptionPeeringController} : d.group = "subscription" <=> d = SubscriptionPeeringController
    BY GroupsOfControllers
<1>6. SubscriptionPeeringController.resource = "rediscloud_subscription_peering"
    BY ResourcesOfControllers
<1>7. \A d \in AllControllers : d.resource = "rediscloud_subscription_peering" <=> d = SubscriptionPeeringController
    BY ResourcesOfControllers DEF AllControllers, NoResource
<1>8. \A d \in AllControllers : Serves(d, "SubscriptionPeering") <=> d = SubscriptionPeeringController
    BY <1>1, <1>4, <1>5 DEF Serves
<1>9. SubscriptionPeeringController \in AllControllers
    BY DEF AllControllers
<1> QED
    BY <1>2, <1>3, <1>6, <1>7, <1>8, <1>9 DEF ServedBy

LEMMA TransitGatewayAttachmentServed == ServedBy("TransitGatewayAttachment", TransitGatewayAttachmentController)
<1>1. Kinds["TransitGatewayAttachment"].group = "transit" /\ Kinds["TransitGatewayAttachment"].name = "GatewayAttachment"
    BY DEF Kinds, TransitGatewayAttachmentKind, Kind
<1>2. TerraformedKinds["TransitGatewayAttachment"].type = "rediscloud_transit_gateway_attachment"
    BY DEF TerraformedKinds, TransitGatewayAttachmentTerraformed, Terraformed
<1>3. "rediscloud_transit_gateway_attachment" \in Resources
    BY DEF Resources, ExternalNameConfigs, TerraformRequires
<1>4. \A d \in AllControllers : d.name = "GatewayAttachment" <=> d \in {TransitGatewayAttachmentController}
    BY NamesOfControllers DEF AllControllers
<1>5. \A d \in {TransitGatewayAttachmentController} : d.group = "transit" <=> d = TransitGatewayAttachmentController
    BY GroupsOfControllers
<1>6. TransitGatewayAttachmentController.resource = "rediscloud_transit_gateway_attachment"
    BY ResourcesOfControllers
<1>7. \A d \in AllControllers : d.resource = "rediscloud_transit_gateway_attachment" <=> d = TransitGatewayAttachmentController
    BY ResourcesOfControllers DEF AllControllers, NoResource
<1>8. \A d \in AllControllers : Serves(d, "TransitGatewayAttachment") <=> d = TransitGatewayAttachmentController
    BY <1>1, <1>4, <1>5 DEF Serves
<1>9. TransitGatewayAttachmentController \in AllControllers
    BY DEF AllControllers
<1> QED
    BY <1>2, <1>3, <1>6, <1>7, <1>8, <1>9 DEF ServedBy

\* Every kind is.
LEMMA KindsAreServed == \A k \in KindNames : \E c : ServedBy(k, c)
<1>1. KindNames = {
    "AclRole", "AclRule", "AclUser",
    "ActivePrivateServiceConnect", "ActivePrivateServiceConnectEndpoint", "ActivePrivateServiceConnectEndpointAccepter",
    "ActiveSubscription", "ActiveSubscriptionDatabase", "ActiveSubscriptionPeering",
    "ActiveSubscriptionRegions", "ActiveTransitGatewayAttachment", "CloudAccount",
    "EssentialsDatabase", "EssentialsSubscription", "PrivateServiceConnect",
    "PrivateServiceConnectEndpoint", "PrivateServiceConnectEndpointAccepter", "RediscloudSubscription",
    "SubscriptionDatabase", "SubscriptionPeering", "TransitGatewayAttachment"}
    BY DEF KindNames, Kinds
<1> QED
    BY <1>1,
       AclRoleServed, AclRuleServed, AclUserServed,
       ActivePrivateServiceConnectServed, ActivePrivateServiceConnectEndpointServed, ActivePrivateServiceConnectEndpointAccepterServed,
       ActiveSubscriptionServed, ActiveSubscriptionDatabaseServed, ActiveSubscriptionPeeringServed,
       ActiveSubscriptionRegionsServed, ActiveTransitGatewayAttachmentServed, CloudAccountServed,
       EssentialsDatabaseServed, EssentialsSubscriptionServed, PrivateServiceConnectServed,
       PrivateServiceConnectEndpointServed, PrivateServiceConnectEndpointAccepterServed, RediscloudSubscriptionServed,
       SubscriptionDatabaseServed, SubscriptionPeeringServed, TransitGatewayAttachmentServed

\* internal/controller: once a process works, each of the 21 kinds has exactly one controller,
\* which runs the Terraform resource of that kind, and nothing else runs that resource.
THEOREM KindsServed == Spec => []EveryKindServed
<1>1. RunsComplete => EveryKindServed
    <2> SUFFICES ASSUME RunsComplete, NEW r \in Replicas, pc[r] = "running", NEW k \in KindNames
                 PROVE  LET serving == {c \in Registered(r) : Serves(c, k)}
                            type == TerraformedKinds[k].type
                        IN  /\ Cardinality(serving) = 1
                            /\ {c.resource : c \in serving} = {type} /\ type \in Resources
                            /\ Cardinality({c \in Registered(r) : c.resource = type}) = 1
        BY DEF EveryKindServed
    <2>1. Registered(r) = AllControllers
        BY OrderIsComplete, ProviderControllers DEF Registered, RunsComplete
    <2>2. PICK c : ServedBy(k, c)
        BY KindsAreServed
    <2>3. {d \in Registered(r) : Serves(d, k)} = {c}
        BY <2>1, <2>2 DEF ServedBy
    <2>4. {d \in Registered(r) : d.resource = TerraformedKinds[k].type} = {c}
        BY <2>1, <2>2 DEF ServedBy
    <2>5. {d.resource : d \in {c}} = {TerraformedKinds[k].type} /\ TerraformedKinds[k].type \in Resources
        BY <2>2 DEF ServedBy
    <2>6. Cardinality({c}) = 1
        BY FS_Singleton
    <2> QED
        BY <2>3, <2>4, <2>5, <2>6
<1> QED
    BY <1>1, RunningIsComplete, PTL
=============================================================================
