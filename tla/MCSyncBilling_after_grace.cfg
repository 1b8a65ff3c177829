SPECIFICATION Spec
CONSTANTS
    o1 = o1
    o2 = o2
    Orders = {o1}
    PlanOf <- MCPlanOf
    Period <- MCPeriod
    Grace = 1
    Updates = {}
    MaxTime = 5
    MaxDeaths = 0
INVARIANTS
    WritesNeedSubscription
