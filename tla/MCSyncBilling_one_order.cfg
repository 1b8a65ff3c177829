SPECIFICATION FairSpec
CONSTANTS
    o1 = o1
    o2 = o2
    Orders = {o1}
    PlanOf <- MCPlanOf
    Period <- MCPeriod
    Grace = 1
    Updates = {"pending", "failed", "canceled", "expired"}
    MaxTime = 5
    MaxDeaths = 1
INVARIANTS
    TypeOK
    
PROPERTIES
    PaidIsHonored
