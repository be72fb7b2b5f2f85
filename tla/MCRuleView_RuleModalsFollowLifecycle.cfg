CONSTANTS
    MaxRules = 2
    MaxRequests = 4
SPECIFICATION Spec
PROPERTY RuleModalsFollowLifecycle
