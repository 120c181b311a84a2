SPECIFICATION Spec
CONSTANTS
    BPs <- MCBPs
    Name <- MCName
    Prefix <- MCPrefix
    Subdomain <- MCSubdomain
    CliGroup <- MCCliGroup
    HasStatic = {"c"}
    Options <- MCOptions
    Endpoints = {"x"}
    EndpointNames <- MCEndpointNames
    ViewFuncs = {"v", "w"}
    ExcClasses = {"HTTP", "NotFound"}
    Mro <- MCMro
    Code <- MCCode
    Templates <- MCTemplates
    Focuses <- MCFocuses
    MaxCalls <- MCMaxCalls
    MaxDepth = 3
INVARIANTS HooksOfBlueprint AppWideOnce RulesOfBlueprint RuleKeepsView OneLateRule
    LevelsNest HandlerAsPromised TemplateOrder
CHECK_DEADLOCK FALSE
