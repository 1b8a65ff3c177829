SPECIFICATION Spec
CONSTANTS
    o1 = o1
    o2 = o2
    Orders = {o1, o2}
    PlanOf <- MCPlanOf
    Period <- MCPeriod
    Grace = 1
    Updates = {"canceled"}
    MaxTime = 3
    MaxDeaths = 1
INVARIANTS
    GrantsArePaid
    PaidIsNotGivenUp
