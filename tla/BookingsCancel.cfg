CONSTANTS
    x1 = x1  x2 = x2  x3 = x3  y1 = y1  y2 = y2  w1 = w1  w2 = w2
    Worker = {w1, w2}
    Nil = Nil
    MaxFaults = 0
    Email = {}
    MaxAttempts = 1
    MaxCodes = 0
    Product = {}
    Campaign = {}
    Reference = {}
    Holder = {}
    MaxAmount = 1
    MaxEntries = 0
    Address = {}
    Review = {}
    Buyer = {}
    Rating = {}
    Seller = {}
    Follower = {}
    User = {}
    Fid = {}
    DeviceRow = {}
    BatchSize = 1
    Ticket = {}
    Courier = {y1}
    MaxLength = 1
    Viewed = {}
    MaxRecent = 0
    MaxViews = 0
    Category = {}
    Item = {}
    Price = {}
    Limit = {}
    SlotType = {x3}
    DurationTier = {x3}
    PromoSlot = {y1}
    SlotBooking = {x1}
    PriceNGN = {1}
    Capacity = {1}
SPECIFICATION Spec
PROPERTY SuspendedStays
CHECK_DEADLOCK FALSE
