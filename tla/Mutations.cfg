CONSTANTS
    p1 = p1
    p2 = p2
    p3 = p3
    d1 = d1
    d2 = d2
    None = None
    NameOrder <- MCNameOrder
    Lowercase <- MCLowercase
    Catalog <- MCCatalog
    IdsOf <- OneDepartment
    Queries <- NoQueries
    Mutations <- MCMutations
    Selected <- SelectedObjects
    Chosen <- ChosenObjects
    SelectResolution <- ResolveSelect
    FilterResolution <- ResolveFilter
    SelectPlan <- PlanSelect
    FilterPlan <- MutationFilter
    ConditionValue <- Satisfies
    FoundValues <- FirstColumn
    SelectPrepares <- Prepares
    FilterConditionPrepares <- ConditionPrepares
SPECIFICATION Spec
INVARIANTS
    MutationsFindTheirObjects
    RefusalsAreJustified
PROPERTIES
    ImplementsObjectGraph
