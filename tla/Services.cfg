CONSTANTS
    x1 = x1  x2 = x2  x3 = x3  y1 = y1  y2 = y2  w1 = w1  w2 = w2
    Worker = {w1, w2}
    Nil = Nil
    MaxFaults = 1
    Email = {x3}
    MaxAttempts = 2
    MaxCodes = 3
    Product = {x3}
    Campaign = {x1, x2}
    Reference = {y1, y2}
    Holder = {x3}
    MaxAmount = 2
    MaxEntries = 3
    Address = {x1, x2, x3}
    Review = {x1, x2}
    Buyer = {y1, y2}
    Rating = {1, 2}
    Seller = {x3}
    Follower = {x1, x2}
    User = {x1, x2}
    Fid = {y1, y2}
    DeviceRow = {x1, x2}
    BatchSize = 1
    Ticket = {x3}
    Courier = {y1}
    MaxLength = 3
    Viewed = {x1, x2, x3}
    MaxRecent = 2
    MaxViews = 5
    Category = {x1, x2, x3}
    Item = {1, 2, 3}
    Price = {1, 2}
    Limit = {2}
    SlotType = {x3}
    DurationTier = {x3}
    PromoSlot = {y1, y2}
    SlotBooking = {x1, x2}
    PriceNGN = {1, 2}
    Capacity = {1}
SPECIFICATION Spec
CONSTRAINT Clean
SYMMETRY Interchangeable
INVARIANTS TypeOK GuessesBounded NoSecondUse CodesReplaced LiveIsPaid BestDealsAreLive WalletBalances RatingMatches FollowersCounted RegistrationsKept AcknowledgedKept RecentKept AllShownOnce StepReported
PROPERTY DefaultIsReplaced
CHECK_DEADLOCK FALSE
