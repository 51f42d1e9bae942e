--------------------------- MODULE AdmissionProofs ---------------------------
(***************************************************************************)
(* What Admission keeps for every choice of kinds, policies and absent     *)
(* parameters and any number of edits: its types, that the program's own   *)
(* writes are admitted, and that Terraform is given every argument it      *)
(* requires, from what the tables of Schemas say of the 21 kinds.          *)
(***************************************************************************)
EXTENDS Admission, TLAPS

---------------------------------------------------------------------------
\* The tables.

\* A struct has the arguments of the parts it begins with, and optional fields are arguments.
LEMMA ArgumentsOfParts ==
    /\ \A s, t : Arguments(s) \subseteq Arguments(s ++ t)
    /\ \A names : names \subseteq Arguments(Optional(names))
<1>1. ASSUME NEW s, NEW t PROVE Arguments(s) \subseteq Arguments(s ++ t)
    BY DEF Arguments, In, Secrets, ++
<1>2. ASSUME NEW names PROVE names \subseteq Arguments(Optional(names))
    BY DEF Arguments, In, Secrets, Optional, Declare, Field, Given
<1> QED
    BY <1>1, <1>2

\* Every parameter a rule requires is an argument of Terraform's, in forProvider.
RequiredAreArguments(k) == Kinds[k].required \subseteq Arguments(Kinds[k].struct)

LEMMA ActiveSubscriptionDatabaseArguments == RequiredAreArguments("ActiveSubscriptionDatabase")
<1>1. Kinds["ActiveSubscriptionDatabase"] = ActiveSubscriptionDatabaseKind
    BY DEF Kinds
<1>2. ActiveSubscriptionDatabaseKind.required \subseteq Arguments(ActiveSubscriptionDatabase)
    BY ArgumentsOfParts DEF ActiveSubscriptionDatabaseKind, Kind, ActiveSubscriptionDatabase
<1> QED
    BY <1>1, <1>2 DEF RequiredAreArguments, ActiveSubscriptionDatabaseKind, Kind

LEMMA EssentialsDatabaseArguments == RequiredAreArguments("EssentialsDatabase")
<1>1. Kinds["EssentialsDatabase"] = EssentialsDatabaseKind
    BY DEF Kinds
<1>2. EssentialsDatabaseKind.required \subseteq Arguments(EssentialsDatabase)
    BY ArgumentsOfParts DEF EssentialsDatabaseKind, Kind, EssentialsDatabase
<1> QED
    BY <1>1, <1>2 DEF RequiredAreArguments, EssentialsDatabaseKind, Kind

LEMMA SubscriptionDatabaseArguments == RequiredAreArguments("SubscriptionDatabase")
<1>1. Kinds["SubscriptionDatabase"] = SubscriptionDatabaseKind
    BY DEF Kinds
<1>2. SubscriptionDatabaseKind.required \subseteq Arguments(SubscriptionDatabase)
    BY ArgumentsOfParts DEF SubscriptionDatabaseKind, Kind, SubscriptionDatabase
<1> QED
    BY <1>1, <1>2 DEF RequiredAreArguments, SubscriptionDatabaseKind, Kind

LEMMA RulesRequireArguments == \A k \in KindNames : RequiredAreArguments(k)
<1> USE DEF RequiredAreArguments, Arguments, In, Secrets, Kind,
        Optional, Demand, Computed, Lists, DemandedLists, Maps, Nested, Demanded, Reported,
        Referenced, Embedded, Declare, Field, Given, NoStruct, ++
<1>1. RequiredAreArguments("AclRole")
    <2>1. Kinds["AclRole"] = AclRoleKind
        BY DEF Kinds
    <2> QED
        BY <2>1 DEF AclRoleKind, AclRole
<1>2. RequiredAreArguments("AclRule")
    <2>1. Kinds["AclRule"] = AclRuleKind
        BY DEF Kinds
    <2> QED
        BY <2>1 DEF AclRuleKind, AclRule_2
<1>3. RequiredAreArguments("AclUser")
    <2>1. Kinds["AclUser"] = AclUserKind
        BY DEF Kinds
    <2> QED
        BY <2>1 DEF AclUserKind, AclUser
<1>4. RequiredAreArguments("ActivePrivateServiceConnect")
    <2>1. Kinds["ActivePrivateServiceConnect"] = ActivePrivateServiceConnectKind
        BY DEF Kinds
    <2> QED
        BY <2>1 DEF ActivePrivateServiceConnectKind, ActivePrivateServiceConnect
<1>5. RequiredAreArguments("ActivePrivateServiceConnectEndpoint")
    <2>1. Kinds["ActivePrivateServiceConnectEndpoint"] = ActivePrivateServiceConnectEndpointKind
        BY DEF Kinds
    <2> QED
        BY <2>1 DEF ActivePrivateServiceConnectEndpointKind, ActivePrivateServiceConnectEndpoint
<1>6. RequiredAreArguments("ActivePrivateServiceConnectEndpointAccepter")
    <2>1. Kinds["ActivePrivateServiceConnectEndpointAccepter"] = ActivePrivateServiceConnectEndpointAccepterKind
        BY DEF Kinds
    <2> QED
        BY <2>1 DEF ActivePrivateServiceConnectEndpointAccepterKind, ActivePrivateServiceConnectEndpointAccepter
<1>7. RequiredAreArguments("ActiveSubscription")
    <2>1. Kinds["ActiveSubscription"] = ActiveSubscriptionKind
        BY DEF Kinds
    <2> QED
        BY <2>1 DEF ActiveSubscriptionKind, ActiveSubscription
<1>8. RequiredAreArguments("ActiveSubscriptionDatabase")
    BY ActiveSubscriptionDatabaseArguments
<1>9. RequiredAreArguments("ActiveSubscriptionPeering")
    <2>1. Kinds["ActiveSubscriptionPeering"] = ActiveSubscriptionPeeringKind
        BY DEF Kinds
    <2> QED
        BY <2>1 DEF ActiveSubscriptionPeeringKind, ActiveSubscriptionPeering
<1>10. RequiredAreArguments("ActiveSubscriptionRegions")
    <2>1. Kinds["ActiveSubscriptionRegions"] = ActiveSubscriptionRegionsKind
        BY DEF Kinds
    <2> QED
        BY <2>1 DEF ActiveSubscriptionRegionsKind, ActiveSubscriptionRegions
<1>11. RequiredAreArguments("ActiveTransitGatewayAttachment")
    <2>1. Kinds["ActiveTransitGatewayAttachment"] = ActiveTransitGatewayAttachmentKind
        BY DEF Kinds
    <2> QED
        BY <2>1 DEF ActiveTransitGatewayAttachmentKind, ActiveTransitGatewayAttachment
<1>12. RequiredAreArguments("CloudAccount")
    <2>1. Kinds["CloudAccount"] = CloudAccountKind
        BY DEF Kinds
    <2> QED
        BY <2>1 DEF CloudAccountKind, CloudAccount
<1>13. RequiredAreArguments("EssentialsDatabase")
    BY EssentialsDatabaseArguments
<1>14. RequiredAreArguments("EssentialsSubscription")
    <2>1. Kinds["EssentialsSubscription"] = EssentialsSubscriptionKind
        BY DEF Kinds
    <2> QED
        BY <2>1 DEF EssentialsSubscriptionKind, EssentialsSubscription
<1>15. RequiredAreArguments("PrivateServiceConnect")
    <2>1. Kinds["PrivateServiceConnect"] = PrivateServiceConnectKind
        BY DEF Kinds
    <2> QED
        BY <2>1 DEF PrivateServiceConnectKind, PrivateServiceConnect
<1>16. RequiredAreArguments("PrivateServiceConnectEndpoint")
    <2>1. Kinds["PrivateServiceConnectEndpoint"] = PrivateServiceConnectEndpointKind
        BY DEF Kinds
    <2> QED
        BY <2>1 DEF PrivateServiceConnectEndpointKind, PrivateServiceConnectEndpoint
<1>17. RequiredAreArguments("PrivateServiceConnectEndpointAccepter")
    <2>1. Kinds["PrivateServiceConnectEndpointAccepter"] = PrivateServiceConnectEndpointAccepterKind
        BY DEF Kinds
    <2> QED
        BY <2>1 DEF PrivateServiceConnectEndpointAccepterKind, PrivateServiceConnectEndpointAccepter
<1>18. RequiredAreArguments("RediscloudSubscription")
    <2>1. Kinds["RediscloudSubscription"] = RediscloudSubscriptionKind
        BY DEF Kinds
    <2> QED
        BY <2>1 DEF RediscloudSubscriptionKind, RediscloudSubscription
<1>19. RequiredAreArguments("SubscriptionDatabase")
    BY SubscriptionDatabaseArguments
<1>20. RequiredAreArguments("SubscriptionPeering")
    <2>1. Kinds["SubscriptionPeering"] = SubscriptionPeeringKind
        BY DEF Kinds
    <2> QED
        BY <2>1 DEF SubscriptionPeeringKind, SubscriptionPeering
<1>21. RequiredAreArguments("TransitGatewayAttachment")
    <2>1. Kinds["TransitGatewayAttachment"] = TransitGatewayAttachmentKind
        BY DEF Kinds
    <2> QED
        BY <2>1 DEF TransitGatewayAttachmentKind, TransitGatewayAttachment
<1> QED
    BY <1>1, <1>2, <1>3, <1>4, <1>5, <1>6, <1>7, <1>8, <1>9, <1>10, <1>11, <1>12,
       <1>13, <1>14, <1>15, <1>16, <1>17, <1>18, <1>19, <1>20, <1>21
    DEF KindNames, Kinds

RequirementsHaveRules(k) ==
    \A a \in TerraformRequires[TerraformedKinds[k].type] :
        <<a>> \in TerraformSensitive[TerraformedKinds[k].type] \/ a \in Kinds[k].required

LEMMA RulesCoverRequirements == \A k \in KindNames : RequirementsHaveRules(k)
<1>1. RequirementsHaveRules("AclRole")
    <2>1. TerraformedKinds["AclRole"] = AclRoleTerraformed /\ Kinds["AclRole"] = AclRoleKind
        BY DEF TerraformedKinds, Kinds
    <2> QED
        BY <2>1 DEF RequirementsHaveRules, AclRoleTerraformed, Terraformed, AclRoleKind, Kind,
               TerraformRequires, TerraformSensitive
<1>2. RequirementsHaveRules("AclRule")
    <2>1. TerraformedKinds["AclRule"] = AclRuleTerraformed /\ Kinds["AclRule"] = AclRuleKind
        BY DEF TerraformedKinds, Kinds
    <2> QED
        BY <2>1 DEF RequirementsHaveRules, AclRuleTerraformed, Terraformed, AclRuleKind, Kind,
               TerraformRequires, TerraformSensitive
<1>3. RequirementsHaveRules("AclUser")
    <2>1. TerraformedKinds["AclUser"] = AclUserTerraformed /\ Kinds["AclUser"] = AclUserKind
        BY DEF TerraformedKinds, Kinds
    <2> QED
        BY <2>1 DEF RequirementsHaveRules, AclUserTerraformed, Terraformed, AclUserKind, Kind,
               TerraformRequires, TerraformSensitive
<1>4. RequirementsHaveRules("ActivePrivateServiceConnect")
    <2>1. TerraformedKinds["ActivePrivateServiceConnect"] = ActivePrivateServiceConnectTerraformed /\ Kinds["ActivePrivateServiceConnect"] = ActivePrivateServiceConnectKind
        BY DEF TerraformedKinds, Kinds
    <2> QED
        BY <2>1 DEF RequirementsHaveRules, ActivePrivateServiceConnectTerraformed, Terraformed, ActivePrivateServiceConnectKind, Kind,
               TerraformRequires, TerraformSensitive
<1>5. RequirementsHaveRules("ActivePrivateServiceConnectEndpoint")
    <2>1. TerraformedKinds["ActivePrivateServiceConnectEndpoint"] = ActivePrivateServiceConnectEndpointTerraformed /\ Kinds["ActivePrivateServiceConnectEndpoint"] = ActivePrivateServiceConnectEndpointKind
        BY DEF TerraformedKinds, Kinds
    <2> QED
        BY <2>1 DEF RequirementsHaveRules, ActivePrivateServiceConnectEndpointTerraformed, Terraformed, ActivePrivateServiceConnectEndpointKind, Kind,
               TerraformRequires, TerraformSensitive
<1>6. RequirementsHaveRules("ActivePrivateServiceConnectEndpointAccepter")
    <2>1. TerraformedKinds["ActivePrivateServiceConnectEndpointAccepter"] = ActivePrivateServiceConnectEndpointAccepterTerraformed /\ Kinds["ActivePrivateServiceConnectEndpointAccepter"] = ActivePrivateServiceConnectEndpointAccepterKind
        BY DEF TerraformedKinds, Kinds
    <2> QED
        BY <2>1 DEF RequirementsHaveRules, ActivePrivateServiceConnectEndpointAccepterTerraformed, Terraformed, ActivePrivateServiceConnectEndpointAccepterKind, Kind,
               TerraformRequires, TerraformSensitive
<1>7. RequirementsHaveRules("ActiveSubscription")
    <2>1. TerraformedKinds["ActiveSubscription"] = ActiveSubscriptionTerraformed /\ Kinds["ActiveSubscription"] = ActiveSubscriptionKind
        BY DEF TerraformedKinds, Kinds
    <2> QED
        BY <2>1 DEF RequirementsHaveRules, ActiveSubscriptionTerraformed, Terraformed, ActiveSubscriptionKind, Kind,
               TerraformRequires, TerraformSensitive
<1>8. RequirementsHaveRules("ActiveSubscriptionDatabase")
    <2>1. TerraformedKinds["ActiveSubscriptionDatabase"] = ActiveSubscriptionDatabaseTerraformed /\ Kinds["ActiveSubscriptionDatabase"] = ActiveSubscriptionDatabaseKind
        BY DEF TerraformedKinds, Kinds
    <2> QED
        BY <2>1 DEF RequirementsHaveRules, ActiveSubscriptionDatabaseTerraformed, Terraformed, ActiveSubscriptionDatabaseKind, Kind,
               TerraformRequires, TerraformSensitive
<1>9. RequirementsHaveRules("ActiveSubscriptionPeering")
    <2>1. TerraformedKinds["ActiveSubscriptionPeering"] = ActiveSubscriptionPeeringTerraformed /\ Kinds["ActiveSubscriptionPeering"] = ActiveSubscriptionPeeringKind
        BY DEF TerraformedKinds, Kinds
    <2> QED
        BY <2>1 DEF RequirementsHaveRules, ActiveSubscriptionPeeringTerraformed, Terraformed, ActiveSubscriptionPeeringKind, Kind,
               TerraformRequires, TerraformSensitive
<1>10. RequirementsHaveRules("ActiveSubscriptionRegions")
    <2>1. TerraformedKinds["ActiveSubscriptionRegions"] = ActiveSubscriptionRegionsTerraformed /\ Kinds["ActiveSubscriptionRegions"] = ActiveSubscriptionRegionsKind
        BY DEF TerraformedKinds, Kinds
    <2> QED
        BY <2>1 DEF RequirementsHaveRules, ActiveSubscriptionRegionsTerraformed, Terraformed, ActiveSubscriptionRegionsKind, Kind,
               TerraformRequires, TerraformSensitive
<1>11. RequirementsHaveRules("ActiveTransitGatewayAttachment")
    <2>1. TerraformedKinds["ActiveTransitGatewayAttachment"] = ActiveTransitGatewayAttachmentTerraformed /\ Kinds["ActiveTransitGatewayAttachment"] = ActiveTransitGatewayAttachmentKind
        BY DEF TerraformedKinds, Kinds
    <2> QED
        BY <2>1 DEF RequirementsHaveRules, ActiveTransitGatewayAttachmentTerraformed, Terraformed, ActiveTransitGatewayAttachmentKind, Kind,
               TerraformRequires, TerraformSensitive
<1>12. RequirementsHaveRules("CloudAccount")
    <2>1. TerraformedKinds["CloudAccount"] = CloudAccountTerraformed /\ Kinds["CloudAccount"] = CloudAccountKind
        BY DEF TerraformedKinds, Kinds
    <2> QED
        BY <2>1 DEF RequirementsHaveRules, CloudAccountTerraformed, Terraformed, CloudAccountKind, Kind,
               TerraformRequires, TerraformSensitive
<1>13. RequirementsHaveRules("EssentialsDatabase")
    <2>1. TerraformedKinds["EssentialsDatabase"] = EssentialsDatabaseTerraformed /\ Kinds["EssentialsDatabase"] = EssentialsDatabaseKind
        BY DEF TerraformedKinds, Kinds
    <2> QED
        BY <2>1 DEF RequirementsHaveRules, EssentialsDatabaseTerraformed, Terraformed, EssentialsDatabaseKind, Kind,
               TerraformRequires, TerraformSensitive
<1>14. RequirementsHaveRules("EssentialsSubscription")
    <2>1. TerraformedKinds["EssentialsSubscription"] = EssentialsSubscriptionTerraformed /\ Kinds["EssentialsSubscription"] = EssentialsSubscriptionKind
        BY DEF TerraformedKinds, Kinds
    <2> QED
        BY <2>1 DEF RequirementsHaveRules, EssentialsSubscriptionTerraformed, Terraformed, EssentialsSubscriptionKind, Kind,
               TerraformRequires, TerraformSensitive
<1>15. RequirementsHaveRules("PrivateServiceConnect")
    <2>1. TerraformedKinds["PrivateServiceConnect"] = PrivateServiceConnectTerraformed /\ Kinds["PrivateServiceConnect"] = PrivateServiceConnectKind
        BY DEF TerraformedKinds, Kinds
    <2> QED
        BY <2>1 DEF RequirementsHaveRules, PrivateServiceConnectTerraformed, Terraformed, PrivateServiceConnectKind, Kind,
               TerraformRequires, TerraformSensitive
<1>16. RequirementsHaveRules("PrivateServiceConnectEndpoint")
    <2>1. TerraformedKinds["PrivateServiceConnectEndpoint"] = PrivateServiceConnectEndpointTerraformed /\ Kinds["PrivateServiceConnectEndpoint"] = PrivateServiceConnectEndpointKind
        BY DEF TerraformedKinds, Kinds
    <2> QED
        BY <2>1 DEF RequirementsHaveRules, PrivateServiceConnectEndpointTerraformed, Terraformed, PrivateServiceConnectEndpointKind, Kind,
               TerraformRequires, TerraformSensitive
<1>17. RequirementsHaveRules("PrivateServiceConnectEndpointAccepter")
    <2>1. TerraformedKinds["PrivateServiceConnectEndpointAccepter"] = PrivateServiceConnectEndpointAccepterTerraformed /\ Kinds["PrivateServiceConnectEndpointAccepter"] = PrivateServiceConnectEndpointAccepterKind
        BY DEF TerraformedKinds, Kinds
    <2> QED
        BY <2>1 DEF RequirementsHaveRules, PrivateServiceConnectEndpointAccepterTerraformed, Terraformed, PrivateServiceConnectEndpointAccepterKind, Kind,
               TerraformRequires, TerraformSensitive
<1>18. RequirementsHaveRules("RediscloudSubscription")
    <2>1. TerraformedKinds["RediscloudSubscription"] = RediscloudSubscriptionTerraformed /\ Kinds["RediscloudSubscription"] = RediscloudSubscriptionKind
        BY DEF TerraformedKinds, Kinds
    <2> QED
        BY <2>1 DEF RequirementsHaveRules, RediscloudSubscriptionTerraformed, Terraformed, RediscloudSubscriptionKind, Kind,
               TerraformRequires, TerraformSensitive
<1>19. RequirementsHaveRules("SubscriptionDatabase")
    <2>1. TerraformedKinds["SubscriptionDatabase"] = SubscriptionDatabaseTerraformed /\ Kinds["SubscriptionDatabase"] = SubscriptionDatabaseKind
        BY DEF TerraformedKinds, Kinds
    <2> QED
        BY <2>1 DEF RequirementsHaveRules, SubscriptionDatabaseTerraformed, Terraformed, SubscriptionDatabaseKind, Kind,
               TerraformRequires, TerraformSensitive
<1>20. RequirementsHaveRules("SubscriptionPeering")
    <2>1. TerraformedKinds["SubscriptionPeering"] = SubscriptionPeeringTerraformed /\ Kinds["SubscriptionPeering"] = SubscriptionPeeringKind
        BY DEF TerraformedKinds, Kinds
    <2> QED
        BY <2>1 DEF RequirementsHaveRules, SubscriptionPeeringTerraformed, Terraformed, SubscriptionPeeringKind, Kind,
               TerraformRequires, TerraformSensitive
<1>21. RequirementsHaveRules("TransitGatewayAttachment")
    <2>1. TerraformedKinds["TransitGatewayAttachment"] = TransitGatewayAttachmentTerraformed /\ Kinds["TransitGatewayAttachment"] = TransitGatewayAttachmentKind
        BY DEF TerraformedKinds, Kinds
    <2> QED
        BY <2>1 DEF RequirementsHaveRules, TransitGatewayAttachmentTerraformed, Terraformed, TransitGatewayAttachmentKind, Kind,
               TerraformRequires, TerraformSensitive
<1> QED
    BY <1>1, <1>2, <1>3, <1>4, <1>5, <1>6, <1>7, <1>8, <1>9, <1>10, <1>11, <1>12,
       <1>13, <1>14, <1>15, <1>16, <1>17, <1>18, <1>19, <1>20, <1>21
    DEF KindNames, Kinds
---------------------------------------------------------------------------
\* Specs, their edits and what is written of them.

\* What TypeOK says of a spec.
SpecOK(s) ==
    /\ s \in Specs
    /\ \A f \in focus \ Selectors(Struct) : s.for[f] # "hollow" /\ s.init[f] # "hollow"
    /\ (\E f \in focus : s.init[f] # "none") => s.hasInit

Filled(part) == [f \in focus |-> IF f \in Selectors(Struct) /\ ~Has(part, f)
                                 THEN "hollow" ELSE part[f]]

\* A written spec, field by field.
LEMMA WrittenParts ==
    ASSUME NEW s \in Specs
    PROVE  /\ Written(s).policies = s.policies /\ Written(s).hasInit = TRUE
           /\ Written(s).for = Filled(s.for) /\ Written(s).init = Filled(s.init)
BY DEF Written, Specs, Filled

\* What the program writes of a spec has the types of one.
LEMMA WrittenTypes == ASSUME NEW s, SpecOK(s) PROVE SpecOK(Written(s))
<1>1. /\ s \in Specs
      /\ \A f \in focus \ Selectors(Struct) : s.for[f] # "hollow" /\ s.init[f] # "hollow"
    BY DEF SpecOK
<1>2. /\ Filled(s.for) \in [focus -> Values] /\ Filled(s.init) \in [focus -> Values]
      /\ \A f \in focus \ Selectors(Struct) :
            Filled(s.for)[f] # "hollow" /\ Filled(s.init)[f] # "hollow"
    BY <1>1 DEF Filled, Specs, Values
<1>3. Written(s) \in Specs
    BY <1>1, <1>2 DEF Specs, Written, Filled
<1> QED
    BY <1>1, <1>2, <1>3, WrittenParts DEF SpecOK

\* What the program writes of an admitted spec is admitted: it leaves the policies alone, it
\* removes no parameter, and the initProvider it adds has its selectors.
LEMMA WritesOfAdmitted == ASSUME NEW s \in Specs, Admitted(s) PROVE Admitted(Written(s))
<1>1. \A f \in focus : /\ Has(s.for, f) => Has(Filled(s.for), f)
                       /\ Has(s.init, f) => Has(Filled(s.init), f)
                       /\ f \in Selectors(Struct) => Has(Filled(s.init), f)
    BY DEF Filled, Has
<1>2. Manages(Written(s)) = Manages(s)
    BY WrittenParts DEF Manages
<1> QED
    BY <1>1, <1>2, WrittenParts DEF Admitted

\* So has the spec of an absent resource.
LEMMA NoSpecTypes == SpecOK(NoSpec)
BY DEF SpecOK, NoSpec, Specs, Values

\* The spec with what late initialisation has observed.
Late(observed) == [spec EXCEPT !.for = [f \in focus |->
                        IF f \in observed /\ ~Has(spec.for, f) THEN "given" ELSE spec.for[f]]]

\* Late initialisation keeps the types: it fills in no selector.
LEMMA LateTypes == ASSUME SpecOK(spec), NEW observed PROVE SpecOK(Late(observed))
<1> DEFINE for == [f \in focus |->
                        IF f \in observed /\ ~Has(spec.for, f) THEN "given" ELSE spec.for[f]]
<1>1. spec \in Specs
    BY DEF SpecOK
<1>2. for \in [focus -> Values] /\ \A f \in focus \ Selectors(Struct) : for[f] # "hollow"
    BY <1>1 DEF Specs, Values, SpecOK
<1> HIDE DEF for
<1>3. /\ [spec EXCEPT !.for = for] \in Specs
      /\ [spec EXCEPT !.for = for].for = for
      /\ [spec EXCEPT !.for = for].init = spec.init
      /\ [spec EXCEPT !.for = for].hasInit = spec.hasInit
    BY <1>1, <1>2 DEF Specs
<1>4. SpecOK([spec EXCEPT !.for = for])
    BY <1>2, <1>3 DEF SpecOK
<1> QED
    BY <1>4 DEF for, Late

\* So does every edit of a user.
LEMMA EditedTypes == ASSUME SpecOK(spec), NEW s \in Edited PROVE SpecOK(s)
<1>0. spec \in Specs /\ {"none", "given"} \subseteq Values
    BY DEF SpecOK, Values
<1>1. ASSUME NEW p \in PolicySets, s = WithPolicies(p) PROVE SpecOK(s)
    <2>1. s \in Specs /\ s.for = spec.for /\ s.init = spec.init /\ s.hasInit = spec.hasInit
        BY <1>0, <1>1 DEF Specs, WithPolicies
    <2> QED
        BY <2>1 DEF SpecOK
<1>2. ASSUME NEW f \in focus, NEW v \in {"none", "given"}, s = WithFor(f, v) PROVE SpecOK(s)
    <2>1. s.for = [spec.for EXCEPT ![f] = v] /\ s.init = spec.init /\ s.hasInit = spec.hasInit
        BY <1>0, <1>2 DEF Specs, WithFor
    <2>2. s \in Specs
        BY <1>0, <1>2 DEF Specs, WithFor
    <2> QED
        BY <1>0, <2>1, <2>2 DEF SpecOK, Specs
<1>3. ASSUME NEW f \in focus, NEW v \in {"none", "given"}, s = WithInit(f, v) PROVE SpecOK(s)
    <2>1. s.for = spec.for /\ s.init = [spec.init EXCEPT ![f] = v] /\ s.hasInit = TRUE
        BY <1>0, <1>3 DEF Specs, WithInit
    <2>2. s \in Specs
        BY <1>0, <1>3 DEF Specs, WithInit
    <2> QED
        BY <1>0, <2>1, <2>2 DEF SpecOK, Specs
<1>4. ASSUME s = WithoutInit PROVE SpecOK(s)
    <2>1. s.for = spec.for /\ s.init = [f \in focus |-> "none"]
        BY <1>0, <1>4 DEF Specs, WithoutInit
    <2>2. s \in Specs
        BY <1>0, <1>4 DEF Specs, WithoutInit
    <2> QED
        BY <2>1, <2>2 DEF SpecOK
<1> QED
    BY <1>1, <1>2, <1>3, <1>4 DEF Edited

---------------------------------------------------------------------------
\* What is stored has been admitted, whoever wrote it.
AdmittedInv == TypeOK /\ (stored => Admitted(spec))

LEMMA AdmittedInit == Init => AdmittedInv
<1> SUFFICES ASSUME Init PROVE AdmittedInv
    OBVIOUS
<1>1. SpecOK(spec)
    BY NoSpecTypes DEF Init
<1>2. kind \in CheckedKinds /\ focus \subseteq Kinds[kind].required \cup Kinds[kind].secrets
    BY DEF Init
<1>3. stored = FALSE /\ remote \in BOOLEAN
    BY DEF Init
<1>4. edits \in 0 .. MaxEdits
    BY AdmissionConstants DEF Init
<1> QED
    BY <1>1, <1>2, <1>3, <1>4 DEF AdmittedInv, TypeOK, SpecOK

LEMMA SpecStep ==
    AdmittedInv /\ [Next]_vars => SpecOK(spec') /\ (stored' => Admitted(spec'))
<1> SUFFICES ASSUME AdmittedInv, [Next]_vars
             PROVE  SpecOK(spec') /\ (stored' => Admitted(spec'))
    OBVIOUS
<1>0. SpecOK(spec)
    BY DEF AdmittedInv, TypeOK, SpecOK
<1>1. CASE Create
    <2>1. PICK s \in [policies : PolicySets, for : [focus -> {"none", "given"}],
                      init : [focus -> {"none", "given"}], hasInit : BOOLEAN] :
            /\ (\E f \in focus : Has(s.init, f)) => s.hasInit
            /\ Admitted(s)
            /\ spec' = s
        BY <1>1 DEF Create
    <2>2. SpecOK(s)
        BY <2>1 DEF SpecOK, Specs, Values, Has
    <2> QED
        BY <2>1, <2>2
<1>2. CASE Edit
    BY <1>0, <1>2, EditedTypes DEF Edit
<1>3. CASE Delete
    BY <1>3, NoSpecTypes DEF Delete
<1>4. CASE Update
    BY <1>0, <1>4, WrittenTypes DEF Update
<1>5. CASE LateInitialize
    <2>1. PICK observed : Admitted(Written(Late(observed))) /\ spec' = Written(Late(observed))
        BY <1>5 DEF LateInitialize, Late
    <2> QED
        BY <1>0, <2>1, LateTypes, WrittenTypes
<1>6. CASE Apply \/ UNCHANGED vars
    BY <1>0, <1>6 DEF Apply, vars, AdmittedInv
<1> QED
    BY <1>1, <1>2, <1>3, <1>4, <1>5, <1>6 DEF Next

LEMMA AdmittedStep == AdmittedInv /\ [Next]_vars => AdmittedInv'
<1> SUFFICES ASSUME AdmittedInv, [Next]_vars PROVE AdmittedInv'
    OBVIOUS
<1>1. kind' = kind /\ focus' = focus
    BY DEF Next, Create, Edit, Delete, Update, LateInitialize, Apply, vars
<1>2. edits' \in 0 .. MaxEdits
    BY AdmissionConstants
    DEF AdmittedInv, TypeOK, Next, Create, Edit, Delete, Update, LateInitialize, Apply, vars
<1>3. stored' \in BOOLEAN
    BY DEF AdmittedInv, TypeOK, Next, Create, Edit, Delete, Update, LateInitialize, Apply, vars
<1>4. remote' \in BOOLEAN
    BY DEF AdmittedInv, TypeOK, Next, Create, Edit, Delete, Update, LateInitialize, Apply, vars
<1>5. SpecOK(spec)' /\ (stored => Admitted(spec))'
    BY <1>1, SpecStep DEF SpecOK, Specs, Struct, Admitted, Manages, Has, Values
<1> QED
    BY <1>1, <1>2, <1>3, <1>4, <1>5 DEF AdmittedInv, TypeOK, SpecOK

\* Types and the admission of what is stored are inductive together.
LEMMA Invariant == Spec => []AdmittedInv
BY AdmittedInit, AdmittedStep, PTL DEF Spec

\* The spec of the resource is of its type throughout: only selectors are ever hollow, and an
\* initProvider that holds anything is there.
THEOREM TypeCorrect == Spec => []TypeOK
<1>1. AdmittedInv => TypeOK
    BY DEF AdmittedInv
<1> QED
    BY <1>1, Invariant, PTL

\* What the program writes of a stored resource is admitted, whatever was done to it before: no
\* rule of any kind can keep the reconciler from adding its finalizer.
THEOREM WritesAreAdmitted == Spec => []WritesAdmitted
<1>1. AdmittedInv => WritesAdmitted
    BY WritesOfAdmitted DEF AdmittedInv, TypeOK, WritesAdmitted
<1> QED
    BY <1>1, Invariant, PTL
---------------------------------------------------------------------------
\* What may be created or updated is managed in the sense of the rules.
LEMMA ApplicableIsManaged == Applicable => stored /\ Manages(spec)
BY DEF Applicable, May, Manages

\* Whatever users and the program did to an admitted resource of any kind before, Terraform is
\* given every required argument that is no secret, as long as it may be created or updated.
\* With --enable-management-policies only: without it initProvider satisfies a rule, and nothing
\* is merged from it.
THEOREM RequirementsAreMet == ManagementPolicies => (Spec => []ArgumentsComplete)
<1> SUFFICES ASSUME ManagementPolicies PROVE Spec => []ArgumentsComplete
    OBVIOUS
<1>1. AdmittedInv => ArgumentsComplete
    <2> SUFFICES ASSUME AdmittedInv, Applicable, NEW a \in Required,
                        <<a>> \notin TerraformSensitive[TerraformedKinds[kind].type]
                 PROVE  a \in ToTerraform(spec)
        BY DEF ArgumentsComplete
    <2>1. kind \in KindNames
        BY AdmissionConstants DEF AdmittedInv, TypeOK
    <2>2. a \in Kinds[kind].required
        BY <2>1, RulesCoverRequirements DEF RequirementsHaveRules, Required
    <2>3. a \in Arguments(Struct)
        BY <2>1, <2>2, RulesRequireArguments DEF RequiredAreArguments, Struct
    <2>4. CASE a \notin focus
        BY <2>2, <2>4 DEF ToTerraform
    <2>5. CASE a \in focus
        <3>1. Admitted(spec) /\ Manages(spec)
            BY ApplicableIsManaged DEF AdmittedInv
        <3>2. Has(spec.for, a) \/ Has(spec.init, a)
            BY <2>2, <2>5, <3>1 DEF Admitted
        <3> QED
            BY <2>3, <2>5, <3>2 DEF ToTerraform, Merged
    <2> QED
        BY <2>4, <2>5
<1> QED
    BY <1>1, Invariant, PTL
=============================================================================
