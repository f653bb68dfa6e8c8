CONSTANTS
    p1 = p1
    p2 = p2
    p3 = p3
    d1 = d1
    d2 = d2
    None = None
    NameOrder <- MCNameOrder
    Lowercase <- MCLowercase
    Catalog <- RootCatalog
    IdsOf <- MCIdsOf
    Queries <- UnpreparedQueries
    Mutations <- NoQueries
    Selected <- SelectedObjects
    Chosen <- ChosenObjects
    SelectResolution <- ResolveSelect
    FilterResolution <- ResolveFilter
    SelectPlan <- PlanSelect
    FilterPlan <- MutationFilter
    ConditionValue <- Satisfies
    FoundValues <- FirstColumn
    SelectPrepares <- Prepares
    FilterConditionPrepares <- ConditionPrepares
SPECIFICATION Spec
INVARIANTS
    SomeAcceptedSelectRuns
CHECK_DEADLOCK FALSE
