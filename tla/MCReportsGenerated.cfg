SPECIFICATION Spec
CONSTANTS
    Users = {owner}
    Requests = {r1}
    Unset = unset
INVARIANTS
    ReviewItemMeansGenerated
