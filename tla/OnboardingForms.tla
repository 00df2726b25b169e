---------------------------- MODULE OnboardingForms ----------------------------
(***************************************************************************)
(* The forms of the seven onboarding wizards, and the schemas that judge   *)
(* them in the browser and again when the profile is published: for each   *)
(* field, what a widget can hold and what the schema makes of it.  The     *)
(* wizards that use them are the subject of OnboardingResume.              *)
(***************************************************************************)
EXTENDS Naturals

(* What a form can hold: nothing, an input left blank or an empty list, rows
   or lists with something missing, a zero, and a proper or improper answer. *)
Raw == {"unset", "blank", "partial", "zero", "good", "bad"}
None == "none"

------------------------------------------------------------------------------
(* Widgets: what a mounted form holds before the user acts, and what they can
   make of it.  A registered input that has no default value reads "". *)
Widget(start, entries) == [start |-> start, entries |-> entries]
Input     == Widget("blank", {"blank", "good", "bad"})
Counted   == Widget("good", {"blank", "good", "bad"})     \* an input with a default
Select    == Widget("unset", {"good"})
Preset    == Widget("good", {"good"})                     \* a choice or a switch with a default
Upload    == Widget("unset", {"good"})
Toggles   == Widget("blank", {"blank", "good"})           \* also lists of uploads
Tags      == Widget("blank", {"blank", "good", "bad"})
Rows      == Widget("blank", {"blank", "partial", "good"})

All(what, fields) == [f \in fields |-> what]

(* Both tables in one; the first decides where they overlap. *)
one ++ other ==
    [f \in DOMAIN one \union DOMAIN other |-> IF f \in DOMAIN one THEN one[f] ELSE other[f]]

(* The rules: which raw answers a schema accepts, and what it makes of them.
   urlOrEmpty drops "", and z.coerce.number() reads it as 0. *)
RequiredText == [good |-> "good"]
OptionalText == [unset |-> "unset", blank |-> "blank", good |-> "good"]
urlOrEmpty   == [unset |-> "unset", blank |-> "unset", good |-> "good"]
OneOf        == [good |-> "good"]
MaybeOneOf   == [unset |-> "unset", good |-> "good"]
Flag         == [unset |-> "good", good |-> "good"]
Number       == [blank |-> "zero", zero |-> "zero", good |-> "good"]
MaybeNumber  == [unset |-> "unset"] ++ Number
Positive     == [good |-> "good"]
AnyOf        == [unset |-> "blank", blank |-> "blank", good |-> "good"]
SomeOf       == [good |-> "good"]
RowsOf       == AnyOf                                     \* a row with a gap is refused
LooseRows    == [partial |-> "partial"] ++ AnyOf

------------------------------------------------------------------------------
(* The schemas. *)
personalDetailsInput ==
    All(RequiredText, {"fullName", "mobileNumber", "dateOfBirth", "nationality",
                   "city", "state", "country"})
    ++ All(urlOrEmpty, {"avatarUrl", "linkedinUrl", "githubUrl", "portfolioUrl"})
    ++ All(OneOf, {"gender"}) ++ All(OptionalText, {"bio"})
    ++ All(MaybeNumber, {"yearsOfExperience"})

startupInfoStep ==
    All(RequiredText, {"name", "tagline", "description", "headquarters"})
    ++ All(urlOrEmpty, {"logoUrl", "website"})
    ++ All(OneOf, {"stage", "productStatus", "revenueStatus", "fundingStatus",
                   "industry", "registrationStatus"})
    ++ All(MaybeOneOf, {"companyType"}) ++ All(Positive, {"foundedYear"})
    ++ All(OptionalText, {"subIndustry", "businessModelSummary", "mission", "vision",
                      "problemStatement", "solution", "uniqueValueProposition"})

productStep ==
    All(OptionalText, {"productName", "description", "currentVersion"})
    ++ All(urlOrEmpty, {"website", "appStoreUrl", "playStoreUrl", "demoVideoUrl", "pitchVideoUrl"})
    ++ All(AnyOf, {"screenshots", "technologyStack"}) ++ All(Flag, {"hasApi"})

marketStep ==
    All(OptionalText, {"targetAudience", "primaryCustomer", "competitiveAdvantage",
                   "goToMarketStrategy"})
    ++ All(AnyOf, {"targetGeography", "customerModel"})
    ++ All(MaybeNumber, {"tamAmount", "samAmount", "somAmount"})
    ++ All(LooseRows, {"customerPersonas", "competitors"})

teamStep ==
    All(RowsOf, {"members"}) ++ All(OneOf, {"hiringStatus"})
    ++ All(AnyOf, {"openRoles"}) ++ All(Positive, {"teamSize"})

tractionStep ==
    All(MaybeNumber, {"monthlyRevenueAmount", "arrAmount", "mrrAmount", "totalUsers",
                      "totalCustomers", "downloads", "retentionRatePercent", "growthRatePercent"})
    ++ All(AnyOf, {"partnerships", "awards", "patents", "mediaMentions"})

fundingStep ==
    All(AnyOf, {"fundingTypes", "previousInvestors"}) ++ All(OptionalText, {"useOfFunds"})
    ++ All(MaybeNumber, {"currentRaiseAmount", "fundingGoalAmount", "valuationAmount",
                         "runwayMonths", "monthlyBurnRateAmount"})

verificationStep == All(AnyOf, {"documents"})
preferencesStep == All(SomeOf, {"lookingFor"})

(* What publish accepts instead for two sections of the founder. *)
teamStepPublish ==
    All([unset |-> "good"] ++ OneOf, {"hiringStatus"})
    ++ All([unset |-> "good"] ++ Positive, {"teamSize"}) ++ teamStep
preferencesStepPublish == All(AnyOf, {"lookingFor"})

createInvestorInput ==
    All(OptionalText, {"firmName", "designation", "investmentThesis"})
    ++ All(OneOf, {"investorType"}) ++ All(urlOrEmpty, {"website"})
    ++ All(RequiredText, {"bio", "location"})
    ++ All(SomeOf, {"preferredIndustries", "preferredStages"})
    ++ All(Number, {"checkSizeMinAmount", "checkSizeMaxAmount"})
    ++ All(AnyOf, {"preferredGeography", "portfolioCompanies"}) ++ All(Flag, {"openForPitches"})

createMentorInput ==
    All(RequiredText, {"headline", "availability", "pricingModel"})
    ++ All(SomeOf, {"expertise", "industries", "sessionTypes", "languages"})
    ++ All(Number, {"yearsExperience"}) ++ All(AnyOf, {"pastStartups"})

(* A program's duration is a positive number, so the row lacks something until
   it is entered; kind has no widget. *)
createIncubatorInput ==
    All(RequiredText, {"organizationName"}) ++ All(OptionalText, {"description"})
    ++ All(urlOrEmpty, {"website"}) ++ All(SomeOf, {"industries"})
    ++ All(AnyOf, {"portfolioCompanies"}) ++ All(MaybeNumber, {"affiliatedMentorCount"})
    ++ All(RowsOf, {"programs"})

createUniversityInput ==
    All(RequiredText, {"institutionName", "affiliationType"}) ++ All(urlOrEmpty, {"website"})
    ++ All(OptionalText, {"incubationCellName"}) ++ All(AnyOf, {"departments", "programsOffered"})

createServiceProviderInput ==
    All(RequiredText, {"companyName", "pricingModel"}) ++ All(SomeOf, {"categories"})
    ++ All(OptionalText, {"description"}) ++ All(Number, {"yearsExperience", "clientsServed"})
    ++ All(urlOrEmpty, {"website"})

(* The years of an education are numbers from 1950 on, if given: like a
   program's duration. *)
createJobSeekerInput ==
    All(RequiredText, {"headline"}) ++ All(MaybeOneOf, {"resumeUrl"})
    ++ All(SomeOf, {"skills", "preferredRoles"}) ++ All(RowsOf, {"experience", "education"})
    ++ All(MaybeNumber, {"expectedSalaryMinAmount", "expectedSalaryMaxAmount"})
    ++ All(OneOf, {"availability"})

------------------------------------------------------------------------------
(* The forms; the full name starts as the account has it. *)
PersonalDetailsStep ==
    All(Counted, {"fullName"}) ++ All(Input, {"mobileNumber", "dateOfBirth", "nationality", "linkedinUrl",
                "portfolioUrl", "city", "state", "country", "bio"})
    ++ All(Upload, {"avatarUrl"}) ++ All(Select, {"gender"})

Step1PersonalDetails ==
    All(Counted, {"fullName"}) ++ All(Input, {"mobileNumber", "dateOfBirth", "nationality", "linkedinUrl",
                "githubUrl", "portfolioUrl", "yearsOfExperience", "city", "state", "country",
                "bio"})
    ++ All(Upload, {"avatarUrl"}) ++ All(Select, {"gender"})

Step2StartupInfo ==
    All(Input, {"name", "tagline", "description", "website", "subIndustry", "foundedYear",
                "headquarters", "businessModelSummary", "mission", "vision",
                "problemStatement", "solution", "uniqueValueProposition"})
    ++ All(Select, {"productStatus", "revenueStatus", "fundingStatus", "stage", "industry",
                    "registrationStatus", "companyType"})
    ++ All(Upload, {"logoUrl"})

Step3Product ==
    All(Input, {"productName", "currentVersion", "description", "website", "appStoreUrl",
                "playStoreUrl", "demoVideoUrl", "pitchVideoUrl"})
    ++ All(Tags, {"technologyStack"}) ++ All(Toggles, {"screenshots"}) ++ All(Preset, {"hasApi"})

Step4Market ==
    All(Input, {"targetAudience", "primaryCustomer", "tamAmount", "samAmount", "somAmount",
                "competitiveAdvantage", "goToMarketStrategy"})
    ++ All(Tags, {"targetGeography"}) ++ All(Toggles, {"customerModel"})
    ++ All(Rows, {"customerPersonas", "competitors"})

Step5Team ==
    All(Rows, {"members"}) ++ All(Counted, {"teamSize"}) ++ All(Preset, {"hiringStatus"})
    ++ All(Tags, {"openRoles"})

Step6Traction ==
    All(Input, {"monthlyRevenueAmount", "arrAmount", "mrrAmount", "totalUsers",
                "totalCustomers", "downloads", "retentionRatePercent", "growthRatePercent"})
    ++ All(Tags, {"partnerships", "awards", "patents", "mediaMentions"})

Step7Funding ==
    All(Toggles, {"fundingTypes"}) ++ All(Tags, {"previousInvestors"})
    ++ All(Input, {"currentRaiseAmount", "fundingGoalAmount", "valuationAmount", "useOfFunds",
                   "runwayMonths", "monthlyBurnRateAmount"})

Step8Verification == All(Toggles, {"documents"})
Step9Preferences == All(Toggles, {"lookingFor"})

InvestorInfoStep ==
    All(Input, {"firmName", "designation", "website", "bio", "checkSizeMinAmount",
                "checkSizeMaxAmount", "location", "investmentThesis"})
    ++ All(Select, {"investorType"}) ++ All(Toggles, {"preferredStages"})
    ++ All(Tags, {"preferredIndustries", "preferredGeography", "portfolioCompanies"})
    ++ All(Preset, {"openForPitches"})

MentorInfoStep ==
    All(Input, {"headline", "yearsExperience", "availability", "pricingModel"})
    ++ All(Toggles, {"sessionTypes"})
    ++ All(Tags, {"expertise", "industries", "languages", "pastStartups"})

IncubatorInfoStep ==
    All(Input, {"organizationName", "website", "description", "affiliatedMentorCount"})
    ++ All(Tags, {"industries", "portfolioCompanies"}) ++ All(Rows, {"programs"})

UniversityInfoStep ==
    All(Input, {"institutionName", "affiliationType", "website", "incubationCellName"})
    ++ All(Tags, {"departments", "programsOffered"})

ServiceProviderInfoStep ==
    All(Input, {"companyName", "website", "description", "pricingModel", "yearsExperience",
                "clientsServed"})
    ++ All(Toggles, {"categories"})

JobSeekerInfoStep ==
    All(Input, {"headline", "expectedSalaryMinAmount", "expectedSalaryMaxAmount"})
    ++ All(Upload, {"resumeUrl"}) ++ All(Tags, {"skills", "preferredRoles"})
    ++ All(Rows, {"experience", "education"}) ++ All(Select, {"availability"})

------------------------------------------------------------------------------
(* The pages: the steps of each wizard, with the schema the browser uses. *)
FormStep(widgets, schema) == [widgets |-> widgets, schema |-> schema]
FounderOnboardingPage ==
    << FormStep(Step1PersonalDetails, personalDetailsInput), FormStep(Step2StartupInfo, startupInfoStep),
       FormStep(Step3Product, productStep), FormStep(Step4Market, marketStep),
       FormStep(Step5Team, teamStep), FormStep(Step6Traction, tractionStep),
       FormStep(Step7Funding, fundingStep), FormStep(Step8Verification, verificationStep),
       FormStep(Step9Preferences, preferencesStep) >>
Short(widgets, schema) ==
    << FormStep(PersonalDetailsStep, personalDetailsInput), FormStep(widgets, schema) >>
InvestorOnboardingPage == Short(InvestorInfoStep, createInvestorInput)
MentorOnboardingPage == Short(MentorInfoStep, createMentorInput)
IncubatorOnboardingPage == Short(IncubatorInfoStep, createIncubatorInput)
UniversityOnboardingPage == Short(UniversityInfoStep, createUniversityInput)
ServiceProviderOnboardingPage == Short(ServiceProviderInfoStep, createServiceProviderInput)
JobSeekerOnboardingPage == Short(JobSeekerInfoStep, createJobSeekerInput)

(* The publishers: which schema they apply to the sections of the draft, and
   which sections may be missing or wrong without stopping them. *)
Publisher(schemas, optional, lenient) ==
    [schema |-> schemas, optional |-> optional, lenient |-> lenient]
Upserting(schema) == Publisher(<<personalDetailsInput, schema>>, {}, {})
StartupPublisher ==
    Publisher(<<personalDetailsInput, startupInfoStep, productStep, marketStep, teamStepPublish,
                tractionStep, fundingStep, verificationStep, preferencesStepPublish>>,
              3..9, {5, 9})
InvestorPublisher == Upserting(createInvestorInput)
MentorPublisher == Upserting(createMentorInput)
IncubatorPublisher == Upserting(createIncubatorInput)
UniversityPublisher == Upserting(createUniversityInput)
ServiceProviderPublisher == Upserting(createServiceProviderInput)
JobSeekerPublisher == Upserting(createJobSeekerInput)

Page == [FOUNDER |-> FounderOnboardingPage, INVESTOR |-> InvestorOnboardingPage,
         MENTOR |-> MentorOnboardingPage, INCUBATOR |-> IncubatorOnboardingPage,
         UNIVERSITY |-> UniversityOnboardingPage, JOB_SEEKER |-> JobSeekerOnboardingPage,
         SERVICE_PROVIDER |-> ServiceProviderOnboardingPage]
PublisherOf == [FOUNDER |-> StartupPublisher, INVESTOR |-> InvestorPublisher,
                MENTOR |-> MentorPublisher, INCUBATOR |-> IncubatorPublisher,
                UNIVERSITY |-> UniversityPublisher, JOB_SEEKER |-> JobSeekerPublisher,
                SERVICE_PROVIDER |-> ServiceProviderPublisher]
==============================================================================
