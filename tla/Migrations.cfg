CONSTANTS
    Users = {u1, u2}
    Phones = {f1}
    Products = {p1}
    BuiltIn = {TV, ETC}
    Categories = {TV, ETC, CUSTOM}
SPECIFICATION Spec
INVARIANTS
    ShapeFollowsRevision
    DataNeverBlocks
    PhonesHaveHyphens
PROPERTIES
    VerificationSurvives
    CategoriesCoverProducts
