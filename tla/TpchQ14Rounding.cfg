SPECIFICATION Spec
CONSTANTS
    NL = 2
    Parts = {p1, p2}
    Types = {"PROMO", "STANDARD"}
    PromoTypes = {"PROMO"}
    Days = {1, 2}
    Date1 = 1
    Date2 = 2
    Prices = {100, 200}
    Discounts = {0, 10}
INVARIANT PromoRevenueRounded
