SPECIFICATION Spec
CONSTANTS
    r1 = r1
    r2 = r2
    r3 = r3
    o1 = o1
    o2 = o2
    alice = alice
    phone1 = phone1
    c1 = c1
    c2 = c2
    p1 = p1
    Absent = Absent
    Requests = {r1, r2, r3}
    Ids = {o1, o2}
    MaxU64 = 100000
    Emails = {alice}
    Password = "right"
    Phones = {phone1}
    Codes = {c1, c2}
    Seconds = {1, 2}
    OrderNos = {p1}
    Pending = "PENDING"
    Retries = 2
    OrderPayloads <- MCOrderPayloads
    OtherPayloads <- MCOtherPayloads
    EarlierOrders <- MCEarlierOrders
    Baskets <- MCBaskets
SYMMETRY RequestSymmetry
CONSTRAINT OneKind
INVARIANTS
    PricingFollows
    MoreIsThere
    LoginsArePaid
    TokensAreEarned
    SettledStays
PROPERTIES
    OrdersAreAtomic
