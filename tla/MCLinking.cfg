SPECIFICATION Spec
CONSTANTS
  Modules <- MCModules
  Builtins <- MCBuiltins
  Programs <- MCPrograms
INVARIANTS NamesLayered MessagesLayered
PROPERTY OnlyStronger
